---------------------------- MODULE Spec2Model ----------------------------
(***************************************************************************)
(* chronos: conversion of decimal-hour cells of CSV / XLSX tables into     *)
(* HH:MM clock strings (internal/converter/converter.go).                  *)
(*                                                                         *)
(* Cells are TLA+ strings, taken apart with Len / SubSeq the way the Go    *)
(* code takes them apart with strings.TrimSpace and strconv.ParseFloat.    *)
(* A float64 is an integer number of 1/Scale hours.  DecimalToTime is      *)
(* evaluated only on values at least 0.02 minutes away from a rounding     *)
(* tie (multiples of 0.002 h), so the exact arithmetic used here and the   *)
(* IEEE-754 arithmetic of the program agree on every value the model       *)
(* feeds it.                                                               *)
(*                                                                         *)
(* The operators that every conversion step goes through (TrimSpace,       *)
(* ParseFloat, DecimalToTime, GetCellValue, SetCellValue, ReplaceCells,    *)
(* ToLower, Ext, TrimSuffix)                                               *)
(* take their arguments by value, as the Go functions do: the body is      *)
(* written over names bound to the argument values (x \in {x0}), so an     *)
(* argument expression is evaluated once per call.                         *)
(***************************************************************************)
EXTENDS Integers, Sequences, FiniteSets, TLC

VARIABLES
    fn, arg, ret,            \* the pure function applied last, its input, its result
    kind,                    \* "csv" (ConvertCSV) or "xlsx" (ConvertXLSX)
    inputPath,               \* the path passed as inputFile
    outputPath,              \* the path passed as outputFile
    inputBefore,             \* the file at inputPath when the call was made
    disk,                    \* the files on disk, by path
    progressChan,            \* the channel passed as progressChan, Nil if none
    progressChans,           \* the progress channels made so far
    columnIndices,           \* the caller's column selection, in the order supplied
    keepOriginal,            \* insert-alongside (TRUE) or replace-in-place (FALSE)
    pc,                      \* position of the conversion call
    records,                 \* ConvertCSV: records; ConvertXLSX: rows
    newRecords,              \* ConvertCSV insert-alongside: the rows rebuilt so far
    sheet,                   \* ConvertXLSX: the cells of the opened workbook f
    headerRowIdx,            \* ConvertXLSX: findHeaderRow(rows)
    headers,                 \* records[0] / rows[headerRowIdx]
    colMap,                  \* the valid selected column indices (0-based)
    convertedCols,           \* header labels of the valid selected columns
    i,                       \* row loop index (0-based record / 1-based sheet row)
    col,                     \* ConvertXLSX insert-alongside: colIdx of the column loop
    processedOps,            \* ConvertXLSX insert-alongside: cells visited so far
    rowsProcessed,           \* ConvertXLSX: running count; both: the returned count
    emitted,                 \* progress fractions handed to the channel, <<num, den>>
    dropped,                 \* how many of them the channel did not take
    received,                \* the fractions a consumer took from the channel
    result,                  \* what the call returned: NoResult, a result or an error
    m,                       \* the UI's Model
    resultChans,             \* the result channels made so far
    cmds,                    \* per conversion, the commands that have not returned
    workers,                 \* per conversion, the goroutine started by convertNextFile
    msgs,                    \* the messages on their way to Update
    handled                  \* per conversion, the conversionCompleteMsg Update received

fnVars == <<fn, arg, ret>>

callVars == <<kind, inputPath, outputPath, inputBefore, columnIndices, keepOriginal,
              progressChan>>

progressVars == <<progressChans, emitted, dropped, received>>

engineVars == <<callVars, disk, pc, records, newRecords, sheet, headerRowIdx, headers,
                colMap, convertedCols, i, col, processedOps, rowsProcessed,
                progressVars, result>>

localVars == <<records, newRecords, sheet, headerRowIdx, headers, colMap, convertedCols,
               i, col, processedOps, rowsProcessed>>

uiVars == <<m, resultChans, cmds, workers, msgs, handled>>

vars == <<fnVars, engineVars, uiVars>>

-----------------------------------------------------------------------------
(* Bounds of the model                                                     *)

FracDigits == 3
MaxHours == 30
MaxStrLen == 3
MaxSampleRows == 11
MaxSheetRows == 21
MaxDataRows == 2
ProgressCap == 1

(* Program constants                                                       *)

RowDetectionLimit == 10

Scale == 10 ^ FracDigits

-----------------------------------------------------------------------------
(* Text: strings.TrimSpace, strconv.ParseFloat, fmt.Sprintf("%02d")        *)

Digits == <<"0", "1", "2", "3", "4", "5", "6", "7", "8", "9">>

IsDigit(c) == \E d \in 1..10 : Digits[d] = c

DigitVal(c) == (CHOOSE d \in 1..10 : Digits[d] = c) - 1

IsSpace(c) == c \in {" ", "\t"}

CharAt(s, k) == SubSeq(s, k, k)

RECURSIVE TrimLeft(_)
TrimLeft(s) ==
    IF s # "" /\ IsSpace(CharAt(s, 1)) THEN TrimLeft(Tail(s)) ELSE s

RECURSIVE TrimRight(_)
TrimRight(s) ==
    IF s # "" /\ IsSpace(CharAt(s, Len(s)))
    THEN TrimRight(SubSeq(s, 1, Len(s) - 1))
    ELSE s

TrimSpace(s0) ==
    CHOOSE v_ \in {(
    TrimRight(TrimLeft(s))
    ) : s \in {s0}} : TRUE

AllDigits(s) == \A k \in 1..Len(s) : IsDigit(CharAt(s, k))

RECURSIVE DigitsVal(_)
DigitsVal(s) ==
    IF s = "" THEN 0
    ELSE DigitsVal(SubSeq(s, 1, Len(s) - 1)) * 10 + DigitVal(CharAt(s, Len(s)))

DotAt(s) ==
    IF \E k \in 1..Len(s) : CharAt(s, k) = "."
    THEN CHOOSE k \in 1..Len(s) :
            CharAt(s, k) = "." /\ \A j \in 1..(k - 1) : CharAt(s, j) # "."
    ELSE 0

(* strconv.ParseFloat(s, 64) on decimal literals: an optional sign, digits *)
(* with at most one point and at least one digit, nothing else.  A literal *)
(* has at most FracDigits digits after the point.                          *)
ParseUnsigned(s) ==
    LET d    == DotAt(s)
        ip   == IF d = 0 THEN s ELSE SubSeq(s, 1, d - 1)
        fp   == IF d = 0 THEN "" ELSE SubSeq(s, d + 1, Len(s))
    IN  IF /\ AllDigits(ip) /\ AllDigits(fp)
           /\ Len(ip) + Len(fp) > 0
           /\ Len(fp) <= FracDigits
        THEN [ok  |-> TRUE,
              val |-> DigitsVal(ip) * Scale + DigitsVal(fp) * 10 ^ (FracDigits - Len(fp))]
        ELSE [ok |-> FALSE, val |-> 0]

ParseFloat(s0) ==
    CHOOSE v_ \in {(
        IF s = "" THEN [ok |-> FALSE, val |-> 0]
        ELSE IF CharAt(s, 1) = "-"
             THEN LET p == ParseUnsigned(Tail(s))
                  IN  [ok |-> p.ok, val |-> 0 - p.val]
             ELSE IF CharAt(s, 1) = "+" THEN ParseUnsigned(Tail(s))
                  ELSE ParseUnsigned(s)
    ) : s \in {s0}} : TRUE

RECURSIVE FormatInt(_)
FormatInt(n) ==
    IF n < 10 THEN Digits[n + 1]
    ELSE FormatInt(n \div 10) \o Digits[(n % 10) + 1]

Pad2(n) == IF n < 10 THEN "0" \o FormatInt(n) ELSE FormatInt(n)

-----------------------------------------------------------------------------
(* DecimalToTime, IsDecimalHour                                            *)

(* DecimalToTime without the carry of a 60th minute into the hour.         *)
DecimalToTime_NoCarry(decimal) ==
    IF decimal < 0 THEN "00:00"
    ELSE LET hours          == decimal \div Scale
             minutesDecimal == (decimal - hours * Scale) * 60
             minutes        == (2 * minutesDecimal + Scale) \div (2 * Scale)
         IN  Pad2(hours) \o ":" \o Pad2(minutes)

(* DecimalToTime without the clamp of negative input: int() truncates      *)
(* towards zero and %02d prints the sign.                                  *)
DecimalToTime_NoClamp(decimal) ==
    LET mag            == IF decimal < 0 THEN 0 - decimal ELSE decimal
        hours          == mag \div Scale
        minutesDecimal == (mag - hours * Scale) * 60
        minutes        == IF decimal < 0
                          THEN IF 2 * minutesDecimal > Scale
                               THEN 0 - ((2 * minutesDecimal - Scale) \div (2 * Scale))
                               ELSE 0
                          ELSE (2 * minutesDecimal + Scale) \div (2 * Scale)
        signed(n, neg) == IF neg /\ n > 0 THEN "-" \o FormatInt(n) ELSE Pad2(n)
    IN  IF minutes >= 60
        THEN Pad2(hours + 1) \o ":" \o Pad2(minutes - 60)
        ELSE signed(hours, decimal < 0) \o ":" \o signed(0 - minutes, minutes < 0)

(* DecimalToTime that separates hours and minutes with a dot *)
DecimalToTime_Dot(decimal) ==
    IF decimal < 0 THEN "00.00"
    ELSE LET hours          == decimal \div Scale
             minutesDecimal == (decimal - hours * Scale) * 60
             minutes        == (2 * minutesDecimal + Scale) \div (2 * Scale)
         IN  IF minutes >= 60
             THEN Pad2(hours + 1) \o "." \o Pad2(minutes - 60)
             ELSE Pad2(hours) \o "." \o Pad2(minutes)

DecimalToTime(decimal0) ==
    CHOOSE v_ \in {(
        IF decimal < 0 THEN "00:00"
        ELSE LET hours          == decimal \div Scale
                 minutesDecimal == (decimal - hours * Scale) * 60      \* in 1/Scale minutes
                 minutes        == (2 * minutesDecimal + Scale) \div (2 * Scale)
             IN  IF minutes >= 60
                 THEN Pad2(hours + 1) \o ":" \o Pad2(minutes - 60)
                 ELSE Pad2(hours) \o ":" \o Pad2(minutes)
    ) : decimal \in {decimal0}} : TRUE

(* IsDecimalHour with the upper limit included (val <= 10000).             *)
IsDecimalHour_InclusiveLimit(s0) ==
    LET s == TrimSpace(s0)
    IN  IF s = "" THEN FALSE
        ELSE LET p == ParseFloat(s)
             IN  IF ~p.ok THEN FALSE
                 ELSE p.val >= 0 /\ p.val <= 10000 * Scale

IsDecimalHour(s0) ==
    LET s == TrimSpace(s0)
    IN  IF s = "" THEN FALSE
        ELSE LET p == ParseFloat(s)
             IN  IF ~p.ok THEN FALSE
                 ELSE p.val >= 0 /\ p.val < 10000 * Scale

-----------------------------------------------------------------------------
(* AutoDetectColumns(data): column indices are 0-based as in the program,   *)
(* data.Rows[j][i] is Rows[j + 1][i + 1] here.                              *)

RECURSIVE ColumnHasDecimalHours(_, _, _, _)
ColumnHasDecimalHours(rows, idx, j, checkedRows) ==
    IF ~(j < Len(rows) /\ j < RowDetectionLimit)
    THEN checkedRows > 0
    ELSE IF idx < Len(rows[j + 1]) /\ TrimSpace(rows[j + 1][idx + 1]) # ""
         THEN IF ~IsDecimalHour(TrimSpace(rows[j + 1][idx + 1]))
              THEN FALSE
              ELSE ColumnHasDecimalHours(rows, idx, j + 1, checkedRows + 1)
         ELSE ColumnHasDecimalHours(rows, idx, j + 1, checkedRows)

RECURSIVE DetectFrom(_, _)
DetectFrom(data, idx) ==
    IF idx >= Len(data.Headers) THEN <<>>
    ELSE (IF ColumnHasDecimalHours(data.Rows, idx, 0, 0) THEN <<idx>> ELSE <<>>)
         \o DetectFrom(data, idx + 1)

(* AutoDetectColumns that samples one row more than the limit.             *)
RECURSIVE ColumnHasDecimalHours_OneMore(_, _, _, _)
ColumnHasDecimalHours_OneMore(rows, idx, j, checkedRows) ==
    IF ~(j < Len(rows) /\ j <= RowDetectionLimit)
    THEN checkedRows > 0
    ELSE IF idx < Len(rows[j + 1]) /\ TrimSpace(rows[j + 1][idx + 1]) # ""
         THEN IF ~IsDecimalHour(TrimSpace(rows[j + 1][idx + 1]))
              THEN FALSE
              ELSE ColumnHasDecimalHours_OneMore(rows, idx, j + 1, checkedRows + 1)
         ELSE ColumnHasDecimalHours_OneMore(rows, idx, j + 1, checkedRows)

RECURSIVE DetectFrom_OneMore(_, _)
DetectFrom_OneMore(data, idx) ==
    IF idx >= Len(data.Headers) THEN <<>>
    ELSE (IF ColumnHasDecimalHours_OneMore(data.Rows, idx, 0, 0) THEN <<idx>> ELSE <<>>)
         \o DetectFrom_OneMore(data, idx + 1)

AutoDetectColumns_OneMore(data) == DetectFrom_OneMore(data, 0)

AutoDetectColumns(data) == DetectFrom(data, 0)

-----------------------------------------------------------------------------
(* findHeaderRow(rows), containsLetters(s); the result is a 0-based index   *)

LowerCase == "abcdefghijklmnopqrstuvwxyz"

UpperCase == "ABCDEFGHIJKLMNOPQRSTUVWXYZ"

Letters ==
    {CharAt(LowerCase, k) : k \in 1..26} \cup {CharAt(UpperCase, k) : k \in 1..26}

IsLetter(c) == c \in Letters

containsLetters(s) == \E k \in 1..Len(s) : IsLetter(CharAt(s, k))

nonEmptyCount(row) ==
    Cardinality({k \in 1..Len(row) : TrimSpace(row[k]) # ""})

hasText(row) ==
    \E k \in 1..Len(row) :
        TrimSpace(row[k]) # "" /\ containsLetters(TrimSpace(row[k]))

searchLimit(rows) ==
    IF Len(rows) > RowDetectionLimit * 2 THEN RowDetectionLimit * 2 ELSE Len(rows)

RECURSIVE HeaderScan(_, _, _, _)
HeaderScan(rows, idx, maxNonEmpty, headerIdx) ==
    IF ~(idx < searchLimit(rows)) THEN headerIdx
    ELSE LET count == nonEmptyCount(rows[idx + 1])
         IN  IF count >= 2 /\ hasText(rows[idx + 1]) /\ count > maxNonEmpty
             THEN HeaderScan(rows, idx + 1, count, idx)
             ELSE HeaderScan(rows, idx + 1, maxNonEmpty, headerIdx)

(* findHeaderRow in which a later row of equal width replaces the earlier. *)
RECURSIVE HeaderScan_LastWins(_, _, _, _)
HeaderScan_LastWins(rows, idx, maxNonEmpty, headerIdx) ==
    IF ~(idx < searchLimit(rows)) THEN headerIdx
    ELSE LET count == nonEmptyCount(rows[idx + 1])
         IN  IF count >= 2 /\ hasText(rows[idx + 1]) /\ count >= maxNonEmpty
             THEN HeaderScan_LastWins(rows, idx + 1, count, idx)
             ELSE HeaderScan_LastWins(rows, idx + 1, maxNonEmpty, headerIdx)

findHeaderRow_LastWins(rows) == HeaderScan_LastWins(rows, 0, 0, -1)

findHeaderRow(rows) == HeaderScan(rows, 0, 0, -1)

-----------------------------------------------------------------------------
(* The conversion call at rest, for the specifications of pure functions   *)

NoFile == [exists |-> FALSE, rows |-> <<>>]

File(rows) == [exists |-> TRUE, rows |-> rows]

(* the file at a path, and the disk after a path was written *)
FileAt(path) == IF path \in DOMAIN disk THEN disk[path] ELSE NoFile

WriteFile(path, file) ==
    [q \in DOMAIN disk \cup {path} |-> IF q = path THEN file ELSE disk[q]]

inputFile == FileAt(inputPath)

outputFile == FileAt(outputPath)

NoResult == [status |-> "none"]

(* a channel made with capacity n; recv counts the receivers parked on it *)
Nil == 0

MakeChan(n) == [cap |-> n, buf |-> <<>>, closed |-> FALSE, recv |-> 0]

Locals0 ==
    /\ records = <<>> /\ newRecords = <<>> /\ sheet = <<>> /\ headerRowIdx = -1
    /\ headers = <<>> /\ colMap = {} /\ convertedCols = <<>> /\ i = 0 /\ col = 0
    /\ processedOps = 0 /\ rowsProcessed = 0

NoProgress == emitted = <<>> /\ dropped = 0 /\ received = <<>>

EngineIdle ==
    /\ kind = "none" /\ inputPath = "" /\ outputPath = "" /\ inputBefore = NoFile
    /\ disk = <<>> /\ progressChan = Nil /\ progressChans = <<>> /\ NoProgress
    /\ columnIndices = <<>> /\ keepOriginal = FALSE /\ pc = "idle" /\ Locals0
    /\ result = NoResult

FnIdle == fn = "none" /\ arg = <<>> /\ ret = <<>>

(* InitialModel: no file selected, no channel made; percent is the value the *)
(* progress bar was last set to, with the channel it was received on         *)
InitialModel ==
    [state |-> "stateFilePicker", selectedFiles |-> <<>>, currentFileIndex |-> 0,
     configs |-> <<>>, results |-> <<>>, err |-> "",
     percent |-> [from |-> Nil, p |-> <<0, 1>>],
     progressChan |-> Nil, resultChan |-> Nil]

(* no command pending, no message on its way, no key pressed; exit is how   *)
(* the program ended: "quit" after tea.Quit, "panic" after a runtime panic   *)
NoMsgs ==
    [load |-> <<>>, loaded |-> <<>>, wait |-> 0, progress |-> <<>>, complete |-> <<>>,
     keys |-> <<>>, exit |-> "none"]

UiIdle ==
    /\ m = InitialModel /\ resultChans = <<>> /\ cmds = <<>> /\ workers = <<>>
    /\ msgs = NoMsgs /\ handled = <<>>

-----------------------------------------------------------------------------
(* ConvertCSV                                                               *)

Failure(msg) == [status |-> "error", err |-> msg]

Success(cols, n) == [status |-> "ok", ColumnsFound |-> cols, RowsProcessed |-> n]

(* csv.Reader.ReadAll with the default FieldsPerRecord = 0: blank lines are *)
(* skipped and every record must have as many fields as the first one.     *)
ReadAll(file) ==
    LET recs == SelectSeq(file, LAMBDA r : Len(r) > 0)
    IN  IF \A k \in 1..Len(recs) : Len(recs[k]) = Len(recs[1])
        THEN [ok |-> TRUE, records |-> recs]
        ELSE [ok |-> FALSE, records |-> <<>>]

(* a progress report that waits for room in the channel *)
Send_Blocking(v) ==
    IF progressChan = Nil THEN UNCHANGED progressVars
    ELSE LET ch == progressChans[progressChan]
         IN  /\ ch.recv > 0 \/ Len(ch.buf) < ch.cap
             /\ emitted' = Append(emitted, v)
             /\ IF ch.recv > 0
                THEN /\ progressChans' = [progressChans EXCEPT ![progressChan].recv = @ - 1]
                     /\ received' = Append(received, v)
                     /\ UNCHANGED dropped
                ELSE /\ progressChans' =
                           [progressChans EXCEPT ![progressChan].buf = Append(@, v)]
                     /\ UNCHANGED <<dropped, received>>

(* the progress report of both conversions:                                 *)
(*     select { case progressChan <- v: default: }                          *)
(* under "progressChan != nil".  A receiver parked on the channel takes the *)
(* value at once; otherwise it goes into the buffer if there is room, and   *)
(* is dropped if there is none.                                             *)
Send(v) ==
    IF progressChan = Nil THEN UNCHANGED progressVars
    ELSE LET ch == progressChans[progressChan]
         IN  /\ emitted' = Append(emitted, v)
             /\ IF ch.recv > 0
                THEN /\ progressChans' = [progressChans EXCEPT ![progressChan].recv = @ - 1]
                     /\ received' = Append(received, v)
                     /\ UNCHANGED dropped
                ELSE IF Len(ch.buf) < ch.cap
                THEN /\ progressChans' =
                           [progressChans EXCEPT ![progressChan].buf = Append(@, v)]
                     /\ UNCHANGED <<dropped, received>>
                ELSE /\ dropped' = dropped + 1
                     /\ UNCHANGED <<progressChans, received>>

(* colMap and convertedCols of the valid entries of columnIndices *)
ValidIndices(indices, hdrs) ==
    {indices[k] : k \in {n \in 1..Len(indices) : indices[n] >= 0 /\ indices[n] < Len(hdrs)}}

(* convertedCols listed in column order instead of the order supplied *)
ConvertedLabels_ByColumn(indices, hdrs) ==
    LET valid == {c \in 0..(Len(hdrs) - 1) : \E k \in 1..Len(indices) : indices[k] = c}
        F[c \in 0..Len(hdrs)] ==
            IF c = Len(hdrs) THEN <<>>
            ELSE (IF c \in valid THEN <<hdrs[c + 1]>> ELSE <<>>) \o F[c + 1]
    IN  F[0]

RECURSIVE ConvertedLabels(_, _)
ConvertedLabels(indices, hdrs) ==
    IF indices = <<>> THEN <<>>
    ELSE (IF Head(indices) >= 0 /\ Head(indices) < Len(hdrs)
          THEN <<hdrs[Head(indices) + 1]>> ELSE <<>>)
         \o ConvertedLabels(Tail(indices), hdrs)

(* the cell parses: val != "" and ParseFloat(val) returns no error *)
(* the engine's test replaced by the classifier's, range included *)
Parses_InRange(cell) == IsDecimalHour(cell)

Parses(cell) == TrimSpace(cell) # "" /\ ParseFloat(TrimSpace(cell)).ok

Converted(cell) == DecimalToTime(ParseFloat(TrimSpace(cell)).val)

(* NewRow that omits the new cell of a data row when nothing was converted *)
RECURSIVE NewRow_Omit(_, _, _, _)
NewRow_Omit(record, colIdx, rowIdx, cmap) ==
    IF colIdx >= Len(record) THEN <<>>
    ELSE LET cell == record[colIdx + 1]
         IN  <<cell>>
             \o (IF colIdx \in cmap
                 THEN IF rowIdx = 0 THEN <<cell \o " (HH:MM)">>
                      ELSE IF Parses(cell) THEN <<Converted(cell)>> ELSE <<>>
                 ELSE <<>>)
             \o NewRow_Omit(record, colIdx + 1, rowIdx, cmap)

(* the row rebuilt left to right with a new cell after each selected one *)
RECURSIVE NewRow(_, _, _, _)
NewRow(record, colIdx, rowIdx, cmap) ==
    IF colIdx >= Len(record) THEN <<>>
    ELSE LET cell == record[colIdx + 1]
         IN  <<cell>>
             \o (IF colIdx \in cmap
                 THEN IF rowIdx = 0 THEN <<cell \o " (HH:MM)">>
                      ELSE <<IF Parses(cell) THEN Converted(cell) ELSE "">>
                 ELSE <<>>)
             \o NewRow(record, colIdx + 1, rowIdx, cmap)

(* ReplacedRow that parses the cell without trimming it *)
ReplacedRow_NoTrim(record, cmap) ==
    [c \in 1..Len(record) |->
        IF (c - 1) \in cmap /\ record[c] # "" /\ ParseFloat(record[c]).ok
        THEN DecimalToTime(ParseFloat(record[c]).val)
        ELSE record[c]]

(* ReplacedRow that zero-fills the selected cells it cannot parse *)
ReplacedRow_ZeroFill(record, cmap) ==
    [c \in 1..Len(record) |->
        IF (c - 1) \in cmap
        THEN IF Parses(record[c]) THEN Converted(record[c]) ELSE "00:00"
        ELSE record[c]]

ReplacedRow(record, cmap) ==
    [c \in 1..Len(record) |->
        IF (c - 1) \in cmap /\ Parses(record[c]) THEN Converted(record[c])
        ELSE record[c]]

(* the header row counted as a processed row *)
CountProcessedRows_WithHeader(recs) == Len(recs)

(* "Count processed rows (excluding header)" *)
CountProcessedRows(recs) == Len(recs) - 1

CsvRead ==
    /\ pc = "start" /\ kind = "csv"
    /\ IF ~inputFile.exists
       THEN /\ result' = Failure("open")
            /\ pc' = "done"
            /\ UNCHANGED <<records, headers, colMap, convertedCols, i>>
       ELSE LET r == ReadAll(inputFile.rows)
            IN  IF ~r.ok
                THEN /\ result' = Failure("wrong number of fields")
                     /\ pc' = "done"
                     /\ UNCHANGED <<records, headers, colMap, convertedCols, i>>
                ELSE IF Len(r.records) = 0
                THEN /\ result' = Failure("empty CSV file")
                     /\ pc' = "done"
                     /\ UNCHANGED <<records, headers, colMap, convertedCols, i>>
                ELSE /\ records' = r.records
                     /\ headers' = r.records[1]
                     /\ colMap' = ValidIndices(columnIndices, r.records[1])
                     /\ convertedCols' = ConvertedLabels(columnIndices, r.records[1])
                     /\ i' = IF keepOriginal THEN 0 ELSE 1
                     /\ pc' = "loop"
                     /\ UNCHANGED result
    /\ UNCHANGED <<fnVars, uiVars, callVars, newRecords,
                   sheet, headerRowIdx, col, processedOps, rowsProcessed, progressVars,
                   disk>>

(* one iteration of "for i, record := range records" *)
CsvKeepRow ==
    /\ pc = "loop" /\ kind = "csv" /\ keepOriginal
    /\ i < Len(records)
    /\ Send(<<i, Len(records)>>)
    /\ newRecords' = Append(newRecords, NewRow(records[i + 1], 0, i, colMap))
    /\ i' = i + 1
    /\ UNCHANGED <<fnVars, uiVars, callVars, pc, records,
                   sheet, headerRowIdx, headers, colMap, convertedCols, col,
                   processedOps, rowsProcessed, disk, result>>

(* one iteration of "for i := 1; i < len(records); i++" *)
CsvReplaceRow ==
    /\ pc = "loop" /\ kind = "csv" /\ ~keepOriginal
    /\ i < Len(records)
    /\ Send(<<i, Len(records)>>)
    /\ records' = [records EXCEPT ![i + 1] = ReplacedRow(records[i + 1], colMap)]
    /\ i' = i + 1
    /\ UNCHANGED <<fnVars, uiVars, callVars, pc,
                   newRecords, sheet, headerRowIdx, headers, colMap, convertedCols,
                   col, processedOps, rowsProcessed, disk, result>>

(* the loop is left: records = newRecords, rowsProcessed, os.Create *)
CsvCreate ==
    /\ pc = "loop" /\ kind = "csv"
    /\ i >= Len(records)
    /\ records' = IF keepOriginal THEN newRecords ELSE records
    /\ rowsProcessed' = CountProcessedRows(records')
    /\ \E created \in BOOLEAN :
          IF created
          THEN /\ disk' = WriteFile(outputPath, File(<<>>))
               /\ pc' = "write"
               /\ UNCHANGED result
          ELSE /\ result' = Failure("create")
               /\ pc' = "done"
               /\ UNCHANGED disk
    /\ UNCHANGED <<fnVars, uiVars, callVars, newRecords,
                   sheet, headerRowIdx, headers, colMap, convertedCols, i, col,
                   processedOps, progressVars>>

(* writer.WriteAll(records) and the return; a failed write leaves the rows  *)
(* written before the failure in the file.                                  *)
CsvWriteAll ==
    /\ pc = "write" /\ kind = "csv"
    /\ \E written \in 0..Len(records) :
          /\ disk' = WriteFile(outputPath, File(SubSeq(records, 1, written)))
          /\ result' = IF written = Len(records)
                       THEN Success(convertedCols, rowsProcessed)
                       ELSE Failure("write")
    /\ pc' = "done"
    /\ UNCHANGED <<fnVars, uiVars, callVars, records,
                   newRecords, sheet, headerRowIdx, headers, colMap, convertedCols,
                   i, col, processedOps, rowsProcessed, progressVars>>

-----------------------------------------------------------------------------
(* ConvertXLSX.  The workbook is the first sheet, a sequence of rows of     *)
(* cells; excelize addresses cells by 1-based column and row.               *)

RECURSIVE TrimTail(_, _)
TrimTail(seq, blank) ==
    IF seq # <<>> /\ seq[Len(seq)] = blank
    THEN TrimTail(SubSeq(seq, 1, Len(seq) - 1), blank)
    ELSE seq

(* f.GetRows: blank cells at the tail of a row and blank rows at the tail   *)
(* of the sheet are skipped                                                 *)
GetRows(sh) == TrimTail([r \in 1..Len(sh) |-> TrimTail(sh[r], "")], <<>>)

GetCellValue(sh0, c0, r0) ==
    CHOOSE v_ \in {(
        IF r <= Len(sh) /\ c <= Len(sh[r]) THEN sh[r][c] ELSE ""
    ) : sh \in {sh0}, c \in {c0}, r \in {r0}} : TRUE

Pad(seq, n, blank) ==
    [k \in 1..(IF Len(seq) < n THEN n ELSE Len(seq)) |->
        IF k <= Len(seq) THEN seq[k] ELSE blank]

SetCellValue(sh0, c0, r0, v0) ==
    CHOOSE v_ \in {(
        LET rows == Pad(sh, r, <<>>)
        IN  [rows EXCEPT ![r] = [Pad(rows[r], c, "") EXCEPT ![c] = v]]
    ) : sh \in {sh0}, c \in {c0}, r \in {r0}, v \in {v0}} : TRUE

(* InsertCols that opens the new column one place further right *)
InsertCols_After(sh, c) ==
    [r \in 1..Len(sh) |->
        IF Len(sh[r]) >= c + 1
        THEN SubSeq(sh[r], 1, c) \o <<"">> \o SubSeq(sh[r], c + 1, Len(sh[r]))
        ELSE sh[r]]

(* InsertCols that moves no cell *)
InsertCols_NoShift(sh, c) == sh

(* f.InsertCols(sheet, column c, 1): the cells at column c and to its right *)
(* move one column to the right, in every row                               *)
InsertCols(sh, c) ==
    [r \in 1..Len(sh) |->
        IF Len(sh[r]) >= c
        THEN SubSeq(sh[r], 1, c - 1) \o <<"">> \o SubSeq(sh[r], c, Len(sh[r]))
        ELSE sh[r]]

XlsxParses(val) == val # "" /\ ParseFloat(TrimSpace(val)).ok

(* totalRows without the last data row *)
totalRows_Short == IF Len(records) - (headerRowIdx + 2) < 0 THEN 0
                   ELSE Len(records) - (headerRowIdx + 2)

totalRows == IF Len(records) - (headerRowIdx + 2) + 1 < 0 THEN 0
             ELSE Len(records) - (headerRowIdx + 2) + 1

(* totalOps counted as the column loop goes: only the selected columns      *)
(* visited so far                                                           *)
totalOps_SoFar == totalRows * Cardinality({c \in colMap : c >= col})

totalOps == totalRows * Cardinality(colMap)

XlsxOpen ==
    /\ pc = "start" /\ kind = "xlsx"
    /\ IF ~inputFile.exists
       THEN /\ result' = Failure("open")
            /\ pc' = "done"
            /\ UNCHANGED <<records, sheet, headerRowIdx, headers, colMap,
                           convertedCols, i, col>>
       ELSE LET rows == GetRows(inputFile.rows)
                h    == findHeaderRow(rows)
            IN  IF Len(rows) = 0
                THEN /\ result' = Failure("empty XLSX file")
                     /\ pc' = "done"
                     /\ UNCHANGED <<records, sheet, headerRowIdx, headers, colMap,
                                    convertedCols, i, col>>
                ELSE IF h = -1
                THEN /\ result' = Failure("could not find header row")
                     /\ pc' = "done"
                     /\ UNCHANGED <<records, sheet, headerRowIdx, headers, colMap,
                                    convertedCols, i, col>>
                ELSE /\ sheet' = inputFile.rows
                     /\ records' = rows
                     /\ headerRowIdx' = h
                     /\ headers' = rows[h + 1]
                     /\ colMap' = ValidIndices(columnIndices, rows[h + 1])
                     /\ convertedCols' = ConvertedLabels(columnIndices, rows[h + 1])
                     /\ col' = Len(rows[h + 1]) - 1
                     /\ i' = h + 2
                     /\ pc' = IF keepOriginal THEN "cols" ELSE "loop"
                     /\ UNCHANGED result
    /\ UNCHANGED <<fnVars, uiVars, callVars, newRecords,
                   processedOps, rowsProcessed, progressVars, disk>>

(* one iteration of "for colIdx := maxCol; colIdx >= 0; colIdx--": the new  *)
(* column and its header; with no data row the row loop is empty            *)
XlsxKeepCol ==
    /\ pc = "cols" /\ kind = "xlsx"
    /\ col >= 0
    /\ IF col \in colMap
       THEN /\ sheet' = SetCellValue(InsertCols(sheet, col + 2), col + 2,
                                     headerRowIdx + 1, headers[col + 1] \o " (HH:MM)")
            /\ i' = headerRowIdx + 2
            /\ IF headerRowIdx + 2 <= Len(records)
               THEN pc' = "rows" /\ col' = col
               ELSE pc' = "cols" /\ col' = col - 1
       ELSE /\ col' = col - 1
            /\ UNCHANGED <<sheet, i, pc>>
    /\ UNCHANGED <<fnVars, uiVars, callVars, records,
                   newRecords, headerRowIdx, headers, colMap, convertedCols,
                   processedOps, rowsProcessed, progressVars, disk, result>>

(* one iteration of "for rowIdx := headerRowIdx + 2; rowIdx <= len(rows)"   *)
(* of the insert-alongside strategy                                         *)
XlsxKeepCell ==
    /\ pc = "rows" /\ kind = "xlsx"
    /\ i <= Len(records)
    /\ LET val == GetCellValue(sheet, col + 1, i)
       IN  IF XlsxParses(val)
           THEN /\ sheet' = SetCellValue(sheet, col + 2, i,
                                         DecimalToTime(ParseFloat(TrimSpace(val)).val))
                /\ rowsProcessed' = rowsProcessed + 1
           ELSE UNCHANGED <<sheet, rowsProcessed>>
    /\ processedOps' = processedOps + 1
    /\ IF totalOps > 0 THEN Send(<<processedOps', totalOps>>)
       ELSE UNCHANGED progressVars
    /\ IF i + 1 <= Len(records)
       THEN i' = i + 1 /\ UNCHANGED <<col, pc>>
       ELSE i' = i + 1 /\ col' = col - 1 /\ pc' = "cols"
    /\ UNCHANGED <<fnVars, uiVars, callVars, records,
                   newRecords, headerRowIdx, headers, colMap, convertedCols,
                   disk, result>>

RECURSIVE ReplaceCells(_, _, _)
ReplaceCells(sh0, r0, cols0) ==
    CHOOSE v_ \in {(
        IF cols = {} THEN [sheet |-> sh, converted |-> 0]
        ELSE LET c    == CHOOSE x \in cols : TRUE
                 val  == GetCellValue(sh, c + 1, r)
                 rest == ReplaceCells(
                            IF XlsxParses(val)
                            THEN SetCellValue(sh, c + 1, r,
                                              DecimalToTime(ParseFloat(TrimSpace(val)).val))
                            ELSE sh,
                            r, cols \ {c})
             IN  [sheet     |-> rest.sheet,
                  converted |-> rest.converted + (IF XlsxParses(val) THEN 1 ELSE 0)]
    ) : sh \in {sh0}, r \in {r0}, cols \in {cols0}} : TRUE

(* one iteration of the row loop of the replace-in-place strategy *)
XlsxReplaceRow ==
    /\ pc = "loop" /\ kind = "xlsx"
    /\ i <= Len(records)
    /\ IF totalRows > 0 THEN Send(<<i - (headerRowIdx + 1), totalRows>>)
       ELSE UNCHANGED progressVars
    /\ LET done == ReplaceCells(sheet, i, colMap)
       IN  /\ sheet' = done.sheet
           /\ rowsProcessed' = rowsProcessed + done.converted
    /\ i' = i + 1
    /\ UNCHANGED <<fnVars, uiVars, callVars, pc, records,
                   newRecords, headerRowIdx, headers, colMap, convertedCols, col,
                   processedOps, disk, result>>

(* f.SaveAs(outputFile) and the return; a failed save may leave any part of *)
(* the workbook behind, shown here as no file or an empty one               *)
XlsxSave ==
    /\ kind = "xlsx"
    /\ \/ pc = "cols" /\ col < 0
       \/ pc = "loop" /\ i > Len(records)
    /\ \E saved \in {"saved", "not created", "cut short"} :
          /\ disk' = WriteFile(outputPath,
                              CASE saved = "saved" -> File(sheet)
                                [] saved = "not created" -> outputFile
                                [] saved = "cut short" -> File(<<>>))
          /\ result' = IF saved = "saved" THEN Success(convertedCols, rowsProcessed)
                       ELSE Failure("save")
    /\ pc' = "done"
    /\ UNCHANGED <<fnVars, uiVars, callVars, records,
                   newRecords, sheet, headerRowIdx, headers, colMap, convertedCols,
                   i, col, processedOps, rowsProcessed, progressVars>>

-----------------------------------------------------------------------------
(* The calls: a table on disk, a column selection, a strategy               *)

Header3 == <<"Name", "Hours", "Overtime">>

DataRows ==
    { <<"Alice", "1.5", "0.25">>,
      <<"Bob", "2.0", "">>,
      <<"Carol", " ", "abc">>,
      <<"Dan", " 7.75 ", "-1">>,
      <<"Eve", "1.992", "10000">>,
      <<"Zed">>,
      <<"Max", "1", "2", "3.5">> }

RECURSIVE SeqsUpTo(_, _)
SeqsUpTo(S, n) ==
    IF n = 0 THEN {<<>>}
    ELSE LET shorter == SeqsUpTo(S, n - 1)
         IN  shorter \cup {Append(q, x) : q \in shorter, x \in S}

Example == << <<"Name", "Hours">>, <<"Alice", "1.5">>, <<"Bob", "2.0">> >>

Tables == {Example} \cup {<<Header3>> \o rows : rows \in SeqsUpTo(DataRows, MaxDataRows)}

Banners == {<<>>, << <<"Timesheet">>, <<>> >>}

InputFiles(k) ==
    {NoFile, File(<<>>)}
    \cup (IF k = "csv"
          THEN {File(t) : t \in Tables \cup {<< <<>>, Header3, <<"Alice", "1.5", "0.25">> >>}}
          ELSE {File(b \o t) : b \in Banners, t \in Tables}
               \cup {File(<< <<"Timesheet">>, <<"1", "2">> >>)})

(* paths: the extension, the name of the converted file *)
RECURSIVE ToLower(_)
ToLower(s0) ==
    CHOOSE v_ \in {(
        IF s = "" THEN ""
        ELSE LET c == CharAt(s, 1)
                 k == {n \in 1..Len(UpperCase) : CharAt(UpperCase, n) = c}
             IN  (IF k = {} THEN c ELSE CharAt(LowerCase, CHOOSE n \in k : TRUE))
                 \o ToLower(SubSeq(s, 2, Len(s)))
    ) : s \in {s0}} : TRUE

(* filepath.Ext: the suffix from the last dot of the last path element *)
Ext(path0) ==
    CHOOSE v_ \in {(
        LET dots == {n \in 1..Len(path) :
                        /\ CharAt(path, n) = "."
                        /\ \A q \in n..Len(path) : CharAt(path, q) # "/"}
        IN  IF dots = {} THEN ""
            ELSE SubSeq(path, CHOOSE n \in dots : \A q \in dots : q <= n, Len(path))
    ) : path \in {path0}} : TRUE

TrimSuffix(s0, suffix0) ==
    CHOOSE v_ \in {(
        IF Len(s) >= Len(suffix) /\ SubSeq(s, Len(s) - Len(suffix) + 1, Len(s)) = suffix
        THEN SubSeq(s, 1, Len(s) - Len(suffix))
        ELSE s
    ) : s \in {s0}, suffix \in {suffix0}} : TRUE

(* base + "_converted" + ext *)
OutputPath(path) ==
    TrimSuffix(path, ToLower(Ext(path))) \o "_converted" \o ToLower(Ext(path))

InputPath(k) == IF k = "csv" THEN "hours.csv" ELSE "hours.xlsx"

Selections ==
    {<<>>, <<1>>, <<1, 2>>, <<2, 1>>, <<0, 2>>, <<-1>>, <<3>>, <<1, 7, -2>>, <<1, 1>>}

(* a call of ConvertCSV or ConvertXLSX about to begin *)
Call(k, file, out, chs) ==
    /\ kind = k
    /\ inputPath = InputPath(k)
    /\ outputPath = out
    /\ inputBefore = file
    /\ disk = IF file.exists THEN (InputPath(k) :> file) ELSE <<>>
    /\ progressChan = Len(chs)
    /\ progressChans = chs
    /\ NoProgress
    /\ pc = "start"
    /\ Locals0
    /\ result = NoResult

Init ==
    /\ FnIdle /\ UiIdle
    /\ \E k \in {"csv", "xlsx"} :
       \E file \in InputFiles(k), out \in {InputPath(k), OutputPath(InputPath(k))} :
          Call(k, file, out, <<>>)
    /\ columnIndices \in Selections
    /\ keepOriginal \in BOOLEAN

Next ==
    \/ CsvRead \/ CsvKeepRow \/ CsvReplaceRow \/ CsvCreate \/ CsvWriteAll
    \/ XlsxOpen \/ XlsxKeepCol \/ XlsxKeepCell \/ XlsxReplaceRow \/ XlsxSave

Spec == Init /\ [][Next]_vars

-----------------------------------------------------------------------------
(* ReadFileData: the headers and rows shown before a conversion             *)

FileData(hdrs, rows, h) ==
    [status |-> "ok", Headers |-> hdrs, Rows |-> rows, HeaderRow |-> h]

readCSVData(filePath) ==
    IF ~FileAt(filePath).exists THEN Failure("open")
    ELSE LET r == ReadAll(FileAt(filePath).rows)
         IN  IF ~r.ok THEN Failure("wrong number of fields")
             ELSE IF Len(r.records) = 0 THEN Failure("empty file")
             ELSE FileData(r.records[1], Tail(r.records), 0)

(* readXLSXData that takes the first row of the sheet for the header row *)
readXLSXData_FromTop(filePath) ==
    IF ~FileAt(filePath).exists THEN Failure("open")
    ELSE LET rows == GetRows(FileAt(filePath).rows)
         IN  IF Len(rows) = 0 THEN Failure("empty file")
             ELSE IF findHeaderRow(rows) = -1 THEN Failure("could not find header row")
             ELSE FileData(rows[1], Tail(rows), 0)

readXLSXData(filePath) ==
    IF ~FileAt(filePath).exists THEN Failure("open")
    ELSE LET rows          == GetRows(FileAt(filePath).rows)
             headerRowIdx_ == findHeaderRow(rows)
         IN  IF Len(rows) = 0 THEN Failure("empty file")
             ELSE IF headerRowIdx_ = -1 THEN Failure("could not find header row")
             ELSE FileData(rows[headerRowIdx_ + 1],
                           SubSeq(rows, headerRowIdx_ + 2, Len(rows)),
                           headerRowIdx_)

(* ReadFileData that compares the extension as it is written *)
ReadFileData_CaseSensitive(filePath) ==
    LET ext == Ext(filePath)
    IN  IF ext = ".csv" THEN readCSVData(filePath)
        ELSE IF ext = ".xlsx" THEN readXLSXData(filePath)
        ELSE Failure("unsupported file type: " \o ext)

ReadFileData(filePath) ==
    LET ext == ToLower(Ext(filePath))
    IN  IF ext = ".csv" THEN readCSVData(filePath)
        ELSE IF ext = ".xlsx" THEN readXLSXData(filePath)
        ELSE Failure("unsupported file type: " \o ext)

(* the file is read before it is converted *)
ApplyReadFileData ==
    /\ fn = "none"
    /\ pc = "start"
    /\ fn' = "ReadFileData"
    /\ arg' = inputPath
    /\ ret' = ReadFileData(inputPath)
    /\ UNCHANGED <<engineVars, uiVars>>

NextRead == ApplyReadFileData \/ Next

SpecRead == Init /\ [][NextRead]_vars

-----------------------------------------------------------------------------
(* The conversions with a progress channel and a consumer of it.  The       *)
(* consumer receives when it likes: it may take the value at the head of    *)
(* the buffer, or park on the empty channel so that the next value sent is  *)
(* handed to it; it may also never do either.                               *)

ConsumerPark ==
    /\ progressChan # Nil
    /\ progressChans[progressChan].recv = 0
    /\ progressChans[progressChan].buf = <<>>
    /\ progressChans' = [progressChans EXCEPT ![progressChan].recv = 1]
    /\ UNCHANGED <<fnVars, uiVars, callVars, disk, pc, records, newRecords, sheet,
                   headerRowIdx, headers, colMap, convertedCols, i, col,
                   processedOps, rowsProcessed, emitted, dropped, received, result>>

ConsumerReceive ==
    /\ progressChan # Nil
    /\ progressChans[progressChan].buf # <<>>
    /\ received' = Append(received, Head(progressChans[progressChan].buf))
    /\ progressChans' = [progressChans EXCEPT ![progressChan].buf = Tail(@)]
    /\ UNCHANGED <<fnVars, uiVars, callVars, disk, pc, records, newRecords, sheet,
                   headerRowIdx, headers, colMap, convertedCols, i, col,
                   processedOps, rowsProcessed, emitted, dropped, result>>

ProgressRows == {<<"Alice", "1.5", "0.25">>, <<"Carol", " ", "abc">>}

ProgressTables == {<<Header3>> \o rows : rows \in SeqsUpTo(ProgressRows, MaxDataRows)}

(* no channel, an unbuffered channel, channels of up to ProgressCap values *)
ProgressChannels == {<<>>} \cup {<<MakeChan(n)>> : n \in 0..ProgressCap}

InitProgress ==
    /\ FnIdle /\ UiIdle
    /\ \E k \in {"csv", "xlsx"} :
       \E t \in ProgressTables, chs \in ProgressChannels :
          Call(k, File(t), OutputPath(InputPath(k)), chs)
    /\ columnIndices \in {<<>>, <<1>>, <<2, 1>>}
    /\ keepOriginal \in BOOLEAN

NextProgress == Next \/ ConsumerPark \/ ConsumerReceive

(* the conversion runs on its own goroutine, which the scheduler keeps      *)
(* running; nothing is assumed of the consumer                              *)
SpecProgress == InitProgress /\ [][NextProgress]_vars /\ WF_vars(Next)

(* Inputs of DecimalToTime: every multiple of 0.002 h in [-2, MaxHours],   *)
(* and the same fractions at 99..100 h and 123 h.                          *)
Step == Scale \div 500

DecimalGrid ==
    {k * Step : k \in (0 - 1000)..(MaxHours * 500)}
    \cup {h * Scale + k * Step : h \in {99, 100, 123, 9999}, k \in 0..499}

Alphabet == {"0", "1", "5", ".", "-", " ", "h"}

RECURSIVE Strs(_)
Strs(n) ==
    IF n = 0 THEN {""}
    ELSE LET shorter == Strs(n - 1)
         IN  shorter \cup {s \o c : s \in shorter, c \in Alphabet}

Tokens ==
    Strs(MaxStrLen)
    \cup {"1.5", "2.0", "abc", "   ", "-1", "-1.5", "10000", "9999.999", "1.5h",
          " 1.5 ", "\t0.25", "+1.5", "01:30", "10000.001", "123.45", "Hours"}

ApplyDecimalToTime ==
    /\ fn = "none"
    /\ \E v \in DecimalGrid :
          /\ fn' = "DecimalToTime"
          /\ arg' = v
          /\ ret' = DecimalToTime(v)
    /\ UNCHANGED <<engineVars, uiVars>>

ApplyIsDecimalHour ==
    /\ fn = "none"
    /\ \E s \in Tokens :
          /\ fn' = "IsDecimalHour"
          /\ arg' = s
          /\ ret' = IsDecimalHour(s)
    /\ UNCHANGED <<engineVars, uiVars>>

InitFn == FnIdle /\ UiIdle /\ EngineIdle

NextFormat == ApplyDecimalToTime \/ ApplyIsDecimalHour

SpecFormat == InitFn /\ [][NextFormat]_vars

(* A second replace-in-place conversion, with the same columns, of the file  *)
(* the first one wrote.                                                     *)
Rerun ==
    /\ pc = "done" /\ result.status = "ok"
    /\ inputPath = InputPath(kind)
    /\ inputPath' = outputPath
    /\ outputPath' = OutputPath(outputPath)
    /\ inputBefore' = outputFile
    /\ pc' = "start"
    /\ records' = <<>> /\ newRecords' = <<>> /\ sheet' = <<>> /\ headerRowIdx' = -1
    /\ headers' = <<>> /\ colMap' = {} /\ convertedCols' = <<>> /\ i' = 0 /\ col' = 0
    /\ processedOps' = 0 /\ rowsProcessed' = 0
    /\ result' = NoResult
    /\ UNCHANGED <<fnVars, uiVars, kind, columnIndices, keepOriginal, progressChan, disk,
                   progressVars>>

InitRerun ==
    \/ InitFn
    \/ /\ FnIdle /\ UiIdle
       /\ \E k \in {"csv", "xlsx"} :
          \E file \in InputFiles(k) : Call(k, file, OutputPath(InputPath(k)), <<>>)
       /\ columnIndices \in Selections
       /\ keepOriginal = FALSE

NextRerun ==
    \/ pc = "idle" /\ ApplyDecimalToTime
    \/ CsvRead \/ CsvReplaceRow \/ CsvCreate \/ CsvWriteAll
    \/ XlsxOpen \/ XlsxReplaceRow \/ XlsxSave
    \/ Rerun

SpecRerun == InitRerun /\ [][NextRerun]_vars

(* Inputs of AutoDetectColumns: tables of up to MaxSampleRows data rows of  *)
(* two cells; every cell of a column holds the column's base value except   *)
(* one cell (row p), and one row (q) may be cut short to its first cell.    *)
BaseCells == {"", "7.5", "Alice"}

OddCells == {"", " ", "8.0", "Invalid", "-1", "10000"}

SampleRows(n, base, p, pcol, t, q) ==
    [j \in 1..n |->
        LET full == [c \in 1..2 |-> IF j = p /\ c = pcol THEN t ELSE base[c]]
        IN  IF j = q THEN SubSeq(full, 1, 1) ELSE full]

SampleHeaders == {<<"Hours">>, <<"Name", "Hours">>, <<"Regular", "Overtime", "Note">>}

ApplyAutoDetectColumns ==
    /\ fn = "none"
    /\ \E h \in SampleHeaders, n \in 0..MaxSampleRows, base \in [1..2 -> BaseCells] :
       \E p \in 0..n, pcol \in 1..2, t \in OddCells :
       \E q \in {0, 1, p, n} :
          LET data == [Headers |-> h, Rows |-> SampleRows(n, base, p, pcol, t, q)]
          IN  /\ fn' = "AutoDetectColumns"
              /\ arg' = data
              /\ ret' = AutoDetectColumns(data)
    /\ UNCHANGED <<engineVars, uiVars>>

NextDetect == ApplyAutoDetectColumns

SpecDetect == InitFn /\ [][NextDetect]_vars

(* Inputs of findHeaderRow: sheets of up to 3 rows and of MaxSheetRows - 1  *)
(* and MaxSheetRows rows, all rows alike except at most two (rows p1 < p2;  *)
(* p1 = 0 or p2 = 0: no such row).                                          *)
BaseRows == {<<>>, <<"Report">>, <<"1", "2", "3">>, <<"Name", "Hours">>}

OddRows == {<<"Name", "Hours">>, <<"Employee", "Regular", "Overtime">>,
            <<"1", "2", "3", "4">>, <<"Total", " ", "">>, <<"Id", "7", "8.5">>}

SheetRows(n, base, p1, r1, p2, r2) ==
    [j \in 1..n |-> IF j = p1 THEN r1 ELSE IF j = p2 THEN r2 ELSE base]

ApplyFindHeaderRow ==
    /\ fn = "none"
    /\ \E n \in (0..3) \cup ((MaxSheetRows - 1)..MaxSheetRows), base \in BaseRows :
       \E p1 \in 0..n, p2 \in 0..n, r1 \in OddRows, r2 \in OddRows :
          /\ p1 = 0 => (p2 = 0 /\ r1 = base)
          /\ p2 = 0 => r2 = base
          /\ p2 # 0 => p1 < p2
          /\ fn' = "findHeaderRow"
          /\ arg' = SheetRows(n, base, p1, r1, p2, r2)
          /\ ret' = findHeaderRow(SheetRows(n, base, p1, r1, p2, r2))
    /\ UNCHANGED <<engineVars, uiVars>>

NextHeader == ApplyFindHeaderRow

SpecHeader == InitFn /\ [][NextHeader]_vars

-----------------------------------------------------------------------------
(* The UI (internal/ui/model.go): the files of a batch are converted one at *)
(* a time, each by a goroutine of its own, and watched through              *)
(* waitForProgress commands that turn what the channels deliver into        *)
(* messages for Update.                                                     *)

MaxSelectedFiles == 3

(* the keys pressed and not yet handed to Update *)
MaxPendingKeys == 1

(* make(chan conversionResultMsg): no buffer *)
MakeResultChan_Unbuffered == [cap |-> 0, buf |-> <<>>, closed |-> FALSE]

(* make(chan conversionResultMsg, 1) *)
MakeResultChan == [cap |-> 1, buf |-> <<>>, closed |-> FALSE]

(* the sequence without its j-th element *)
Remove(seq, j) == SubSeq(seq, 1, j - 1) \o SubSeq(seq, j + 1, Len(seq))

(* the orders in which "for idx := range config.selectedCols" can visit S *)
Orderings(S) ==
    {q \in [1..Cardinality(S) -> S] : \A a, b \in 1..Cardinality(S) : q[a] = q[b] => a = b}

(* convertNextFile on the model mm: a new pair of channels, the command     *)
(* that starts the goroutine and one waitForProgress on the new channels;   *)
(* hd is the count of messages received so far                              *)
convertNextFile(mm, hd) ==
    LET id == Len(progressChans) + 1
    IN  /\ progressChans' = Append(progressChans, MakeChan(ProgressCap))
        /\ resultChans' = Append(resultChans, MakeResultChan)
        /\ m' = [mm EXCEPT !.progressChan = id, !.resultChan = id]
        /\ cmds' = Append(cmds, [launch     |-> TRUE,
                                 config     |-> mm.configs[mm.currentFileIndex + 1],
                                 onProgress |-> 1,
                                 onResult   |-> 0])
        /\ workers' = Append(workers, [pc |-> "none", result |-> NoResult])
        /\ handled' = Append(hd, 0)

(* Update, tea.KeyMsg "enter" in stateColumnSelection *)
KeyEnter ==
    /\ m.state = "stateColumnSelection"
    /\ DOMAIN m.configs[m.currentFileIndex + 1].selectedCols # {}
    /\ IF m.currentFileIndex < Len(m.selectedFiles) - 1
       THEN /\ m' = [m EXCEPT !.currentFileIndex = @ + 1, !.state = "stateLoading"]
            /\ msgs' = [msgs EXCEPT !.load = Append(@, m.selectedFiles[m.currentFileIndex + 2])]
            /\ UNCHANGED <<progressChans, resultChans, cmds, workers, handled>>
       ELSE /\ convertNextFile([m EXCEPT !.state = "stateProcessing",
                                         !.currentFileIndex = 0], handled)
            /\ UNCHANGED msgs
    /\ UNCHANGED <<fnVars, callVars, disk, pc, localVars, emitted, dropped, received, result>>

(* the first command of convertNextFile: it works out the call, starts the  *)
(* goroutine and returns waitForProgressMsg                                 *)
Launch(k) ==
    /\ cmds[k].launch
    /\ LET config == cmds[k].config
           ext    == ToLower(Ext(config.path))
       IN  /\ \E selectedIndices \in
                    Orderings({idx \in DOMAIN config.selectedCols : config.selectedCols[idx]}) :
                 columnIndices' = selectedIndices
           /\ kind' = IF ext = ".csv" THEN "csv" ELSE IF ext = ".xlsx" THEN "xlsx" ELSE "none"
           /\ inputPath' = config.path
           /\ outputPath' = OutputPath(config.path)
           /\ inputBefore' = FileAt(config.path)
           /\ keepOriginal' = config.keepOriginal
           /\ pc' = IF ext \in {".csv", ".xlsx"} THEN "start" ELSE "done"
    /\ progressChan' = k
    /\ records' = <<>> /\ newRecords' = <<>> /\ sheet' = <<>> /\ headerRowIdx' = -1
    /\ headers' = <<>> /\ colMap' = {} /\ convertedCols' = <<>> /\ i' = 0 /\ col' = 0
    /\ processedOps' = 0 /\ rowsProcessed' = 0
    /\ emitted' = <<>> /\ dropped' = 0 /\ received' = <<>>
    /\ result' = NoResult
    /\ workers' = [workers EXCEPT ![k].pc = "convert"]
    /\ cmds' = [cmds EXCEPT ![k].launch = FALSE]
    /\ msgs' = [msgs EXCEPT !.wait = @ + 1]
    /\ UNCHANGED <<fnVars, disk, progressChans, m, resultChans, handled>>

(* resultChan <- conversionResultMsg{result: result, err: err} *)
WorkerSendResult(k) ==
    /\ workers[k].pc = "convert" /\ progressChan = k /\ pc = "done"
    /\ Len(resultChans[k].buf) < resultChans[k].cap
    /\ resultChans' = [resultChans EXCEPT ![k].buf = Append(@, result)]
    /\ workers' = [workers EXCEPT ![k] = [pc |-> "closeProgress", result |-> result]]
    /\ UNCHANGED <<fnVars, engineVars, m, cmds, msgs, handled>>

(* close(progressChan) *)
WorkerCloseProgress(k) ==
    /\ workers[k].pc = "closeProgress"
    /\ progressChans' = [progressChans EXCEPT ![k].closed = TRUE]
    /\ workers' = [workers EXCEPT ![k].pc = "closeResult"]
    /\ UNCHANGED <<fnVars, callVars, disk, pc, localVars, emitted, dropped, received, result,
                   m, resultChans, cmds, msgs, handled>>

(* close(resultChan) *)
WorkerCloseResult(k) ==
    /\ workers[k].pc = "closeResult"
    /\ resultChans' = [resultChans EXCEPT ![k].closed = TRUE]
    /\ workers' = [workers EXCEPT ![k].pc = "exit"]
    /\ UNCHANGED <<fnVars, engineVars, m, cmds, msgs, handled>>

(* waitForProgress: p, ok := <-progressChan with ok: it returns              *)
(* progressMsg(p); from is the channel the value came out of                 *)
WaitRecvProgress(k) ==
    /\ cmds[k].onProgress > 0
    /\ progressChans[k].buf # <<>>
    /\ progressChans' = [progressChans EXCEPT ![k].buf = Tail(@)]
    /\ received' = IF k = progressChan
                   THEN Append(received, Head(progressChans[k].buf)) ELSE received
    /\ cmds' = [cmds EXCEPT ![k].onProgress = @ - 1]
    /\ msgs' = [msgs EXCEPT !.progress =
                   Append(@, [from |-> k, p |-> Head(progressChans[k].buf)])]
    /\ UNCHANGED <<fnVars, callVars, disk, pc, localVars, emitted, dropped, result,
                   m, resultChans, workers, handled>>

(* waitForProgress that goes on to the result channel as soon as the         *)
(* progress channel is empty, closed or not                                  *)
WaitProgressClosed_Eager(k) ==
    /\ cmds[k].onProgress > 0
    /\ progressChans[k].buf = <<>>
    /\ cmds' = [cmds EXCEPT ![k].onProgress = @ - 1, ![k].onResult = @ + 1]
    /\ UNCHANGED <<fnVars, engineVars, m, resultChans, workers, msgs, handled>>

(* waitForProgress: p, ok := <-progressChan with !ok: it goes on to          *)
(* res, ok := <-resultChan                                                  *)
WaitProgressClosed(k) ==
    /\ cmds[k].onProgress > 0
    /\ progressChans[k].buf = <<>> /\ progressChans[k].closed
    /\ cmds' = [cmds EXCEPT ![k].onProgress = @ - 1, ![k].onResult = @ + 1]
    /\ UNCHANGED <<fnVars, engineVars, m, resultChans, workers, msgs, handled>>

(* WaitRecvResult that leaves the result in the channel *)
WaitRecvResult_Peek(k) ==
    /\ cmds[k].onResult > 0
    /\ resultChans[k].buf # <<>>
    /\ cmds' = [cmds EXCEPT ![k].onResult = @ - 1]
    /\ msgs' = [msgs EXCEPT !.complete =
                   Append(@, [from |-> k, res |-> Head(resultChans[k].buf)])]
    /\ UNCHANGED <<fnVars, engineVars, m, resultChans, workers, handled>>

(* waitForProgress: res, ok := <-resultChan with ok: it returns             *)
(* conversionCompleteMsg(res); from is the channel the message came out of  *)
WaitRecvResult(k) ==
    /\ cmds[k].onResult > 0
    /\ resultChans[k].buf # <<>>
    /\ resultChans' = [resultChans EXCEPT ![k].buf = Tail(@)]
    /\ cmds' = [cmds EXCEPT ![k].onResult = @ - 1]
    /\ msgs' = [msgs EXCEPT !.complete =
                   Append(@, [from |-> k, res |-> Head(resultChans[k].buf)])]
    /\ UNCHANGED <<fnVars, engineVars, m, workers, handled>>

(* waitForProgress: res, ok := <-resultChan with !ok: it returns nil *)
WaitResultClosed(k) ==
    /\ cmds[k].onResult > 0
    /\ resultChans[k].buf = <<>> /\ resultChans[k].closed
    /\ cmds' = [cmds EXCEPT ![k].onResult = @ - 1]
    /\ UNCHANGED <<fnVars, engineVars, m, resultChans, workers, msgs, handled>>

(* Update, progressMsg *)
UpdateProgressMsg ==
    /\ \E j \in 1..Len(msgs.progress) :
          /\ msgs' = [msgs EXCEPT !.progress = Remove(@, j)]
          /\ IF m.state = "stateProcessing"
             THEN /\ m' = [m EXCEPT !.percent = msgs.progress[j]]
                  /\ cmds' = [cmds EXCEPT ![m.progressChan].onProgress = @ + 1]
             ELSE UNCHANGED <<m, cmds>>
    /\ UNCHANGED <<fnVars, engineVars, resultChans, workers, handled>>

(* Update, waitForProgressMsg *)
UpdateWaitForProgressMsg ==
    /\ msgs.wait > 0
    /\ msgs' = [msgs EXCEPT !.wait = @ - 1]
    /\ IF m.progressChan = Nil THEN UNCHANGED cmds
       ELSE cmds' = [cmds EXCEPT ![m.progressChan].onProgress = @ + 1]
    /\ UNCHANGED <<fnVars, engineVars, m, resultChans, workers, handled>>

(* Update on conversionCompleteMsg that goes on with the batch whatever the  *)
(* message carries                                                          *)
UpdateConversionCompleteMsg_IgnoreErr ==
    /\ \E j \in 1..Len(msgs.complete) :
          LET msg      == msgs.complete[j]
              counted == [handled EXCEPT ![msg.from] = @ + 1]
              mm      == [m EXCEPT !.results = Append(@, msg.res)]
          IN  /\ msgs' = [msgs EXCEPT !.complete = Remove(@, j)]
              /\ IF mm.currentFileIndex < Len(mm.selectedFiles) - 1
                 THEN convertNextFile([mm EXCEPT !.currentFileIndex = @ + 1], counted)
                 ELSE /\ m' = [mm EXCEPT !.state = "stateComplete"]
                      /\ handled' = counted
                      /\ UNCHANGED <<progressChans, resultChans, cmds, workers>>
    /\ UNCHANGED <<fnVars, callVars, disk, pc, localVars, emitted, dropped, received, result>>

(* Update, conversionCompleteMsg *)
UpdateConversionCompleteMsg ==
    /\ \E j \in 1..Len(msgs.complete) :
          LET msg      == msgs.complete[j]
              counted == [handled EXCEPT ![msg.from] = @ + 1]
          IN  /\ msgs' = [msgs EXCEPT !.complete = Remove(@, j)]
              /\ IF msg.res.status = "error"
                 THEN /\ m' = [m EXCEPT !.err = msg.res.err, !.state = "stateError"]
                      /\ handled' = counted
                      /\ UNCHANGED <<progressChans, resultChans, cmds, workers>>
                 ELSE LET mm == [m EXCEPT !.results = Append(@, msg.res)]
                      IN  IF mm.currentFileIndex < Len(mm.selectedFiles) - 1
                          THEN convertNextFile([mm EXCEPT !.currentFileIndex = @ + 1],
                                               counted)
                          ELSE /\ m' = [mm EXCEPT !.state = "stateComplete"]
                               /\ handled' = counted
                               /\ UNCHANGED <<progressChans, resultChans, cmds, workers>>
    /\ UNCHANGED <<fnVars, callVars, disk, pc, localVars, emitted, dropped, received, result>>

(* A batch whose last file is having its columns chosen: the files are on   *)
(* disk, every file has a configuration.                                    *)
UiTable == <<Header3, <<"Alice", "1.5", "0.25">>, <<"Carol", " ", "abc">> >>

Batches == {<<"hours.csv">>, <<"hours.xlsx">>,
            <<"hours.csv", "hours.xlsx">>, <<"hours.xlsx", "hours.csv">>}

(* selectedCols after the detected column 2 was toggled off *)
ColumnChoices == {(1 :> TRUE) @@ (2 :> FALSE)}

InitUI ==
    /\ FnIdle
    /\ kind = "none" /\ inputPath = "" /\ outputPath = "" /\ inputBefore = NoFile
    /\ disk = ("hours.csv" :> File(UiTable)) @@ ("hours.xlsx" :> File(UiTable))
    /\ progressChan = Nil /\ progressChans = <<>> /\ NoProgress
    /\ columnIndices = <<>> /\ keepOriginal = FALSE /\ pc = "idle" /\ Locals0
    /\ result = NoResult
    /\ \E files \in Batches, cols \in ColumnChoices, keep \in BOOLEAN :
          m = [InitialModel EXCEPT
                  !.state = "stateColumnSelection",
                  !.selectedFiles = files,
                  !.currentFileIndex = Len(files) - 1,
                  !.configs = [n \in 1..Len(files) |->
                                  [path              |-> files[n],
                                   fileData          |-> FileData(Header3, Tail(UiTable), 0),
                                   detectedCols      |-> <<1>>,
                                   selectedCols      |-> cols,
                                   selectableIndices |-> <<0, 1, 2>>,
                                   keepOriginal      |-> keep,
                                   cursor            |-> 2]]]
    /\ resultChans = <<>> /\ cmds = <<>> /\ workers = <<>> /\ msgs = NoMsgs
    /\ handled = <<>>

(* what runs without the user: the commands, the goroutines, the conversion *)
(* and Update on the messages they produce                                  *)
RunUI ==
    \/ \E k \in 1..Len(cmds) : Launch(k)
    \/ Next
    \/ \E k \in 1..Len(workers) :
          WorkerSendResult(k) \/ WorkerCloseProgress(k) \/ WorkerCloseResult(k)
    \/ \E k \in 1..Len(cmds) :
          \/ WaitRecvProgress(k) \/ WaitProgressClosed(k)
          \/ WaitRecvResult(k) \/ WaitResultClosed(k)
    \/ UpdateProgressMsg \/ UpdateWaitForProgressMsg \/ UpdateConversionCompleteMsg

NextUI == KeyEnter \/ RunUI

(* the Go scheduler runs every goroutine that can run and the Bubble Tea    *)
(* loop hands every message to Update; the user may never press a key       *)
SpecUI == InitUI /\ [][NextUI]_vars /\ WF_vars(RunUI)

-----------------------------------------------------------------------------
(* The keys: Update on tea.KeyMsg in every state, loadFile and Update on    *)
(* fileLoadedMsg.  A key the user has pressed waits in msgs.keys until       *)
(* Update is handed it.                                                      *)

(* the keys of the handlers; "k", "j" and "delete" are handled as "up",      *)
(* "down" and "backspace", "x" has no case anywhere                          *)
Keys == {"ctrl+c", "q", "esc", "enter", " ", "a", "o", "up", "down", "backspace", "x"}

(* the user presses one of the keys K *)
PressKey(K) ==
    /\ msgs.exit = "none"
    /\ Len(msgs.keys) < MaxPendingKeys
    /\ \E key \in K : msgs' = [msgs EXCEPT !.keys = Append(@, key)]
    /\ UNCHANGED <<fnVars, engineVars, m, resultChans, cmds, workers, handled>>

(* a handler that returns no conversion command *)
NoConversion == UNCHANGED <<progressChans, resultChans, cmds, workers, handled>>

(* map[int]bool: a missing key reads as false, a store adds the key *)
Get(map, k) == IF k \in DOMAIN map THEN map[k] ELSE FALSE

Put(map, k, v) == [x \in DOMAIN map \cup {k} |-> IF x = k THEN v ELSE map[x]]

Range(seq) == {seq[n] : n \in 1..Len(seq)}

(* the files the file picker lists: fp.AllowedTypes *)
Pickable == {p \in DOMAIN disk : Ext(p) \in {".csv", ".xlsx"}}

(* case stateFilePicker; which entry the picker's cursor is on is not        *)
(* modelled: the space key selects any listed file, or none                  *)
FilePickerKey(key, rest) ==
    IF key \in {"ctrl+c", "q"}
    THEN /\ msgs' = [rest EXCEPT !.exit = "quit"]
         /\ UNCHANGED m /\ NoConversion
    ELSE IF key = " "
    THEN /\ \E path \in Pickable \cup {""} :
               m' = IF /\ path # ""
                       /\ path \notin Range(m.selectedFiles)
                       /\ Len(m.selectedFiles) < MaxSelectedFiles
                    THEN [m EXCEPT !.selectedFiles = Append(@, path)]
                    ELSE m
         /\ msgs' = rest /\ NoConversion
    ELSE IF key = "enter" /\ Len(m.selectedFiles) > 0
    THEN /\ m' = [m EXCEPT !.currentFileIndex = 0, !.state = "stateLoading"]
         /\ msgs' = [rest EXCEPT !.load = Append(@, m.selectedFiles[1])]
         /\ NoConversion
    ELSE IF key \in {"backspace", "delete"} /\ Len(m.selectedFiles) > 0
    THEN /\ m' = [m EXCEPT !.selectedFiles = SubSeq(@, 1, Len(@) - 1)]
         /\ msgs' = rest /\ NoConversion
    ELSE /\ msgs' = rest
         /\ UNCHANGED m /\ NoConversion

(* case stateColumnSelection, on config := &m.configs[m.currentFileIndex];   *)
(* an index out of range ends the program in a panic                         *)
ColumnSelectionKey(key, rest) ==
    LET idx    == m.currentFileIndex + 1
        config == m.configs[idx]
    IN  IF key \in {"ctrl+c", "q"}
        THEN /\ msgs' = [rest EXCEPT !.exit = "quit"]
             /\ UNCHANGED m /\ NoConversion
        ELSE IF key \in {"up", "k"}
        THEN /\ m' = IF config.cursor > 0
                     THEN [m EXCEPT !.configs[idx].cursor = @ - 1] ELSE m
             /\ msgs' = rest /\ NoConversion
        ELSE IF key \in {"down", "j"}
        THEN /\ m' = IF config.cursor < Len(config.selectableIndices) - 1
                     THEN [m EXCEPT !.configs[idx].cursor = @ + 1] ELSE m
             /\ msgs' = rest /\ NoConversion
        ELSE IF key = " "
        THEN IF config.cursor \in 0..(Len(config.selectableIndices) - 1)
             THEN LET colIdx == config.selectableIndices[config.cursor + 1]
                  IN  /\ m' = [m EXCEPT !.configs[idx].selectedCols =
                                   Put(@, colIdx, ~Get(@, colIdx))]
                      /\ msgs' = rest /\ NoConversion
             ELSE /\ msgs' = [rest EXCEPT !.exit = "panic"]
                  /\ UNCHANGED m /\ NoConversion
        ELSE IF key = "o"
        THEN /\ m' = [m EXCEPT !.configs[idx].keepOriginal = ~@]
             /\ msgs' = rest /\ NoConversion
        ELSE IF key = "a"
        THEN /\ m' = [m EXCEPT !.configs[idx].selectedCols =
                          [x \in DOMAIN @ \cup Range(config.detectedCols) |->
                              IF x \in Range(config.detectedCols) THEN TRUE ELSE @[x]]]
             /\ msgs' = rest /\ NoConversion
        ELSE IF key = "enter" /\ DOMAIN config.selectedCols # {}
        THEN IF m.currentFileIndex < Len(m.selectedFiles) - 1
             THEN /\ m' = [m EXCEPT !.currentFileIndex = @ + 1, !.state = "stateLoading"]
                  /\ msgs' = [rest EXCEPT
                                 !.load = Append(@, m.selectedFiles[m.currentFileIndex + 2])]
                  /\ NoConversion
             ELSE /\ convertNextFile([m EXCEPT !.state = "stateProcessing",
                                               !.currentFileIndex = 0], handled)
                  /\ msgs' = rest
        ELSE /\ msgs' = rest
             /\ UNCHANGED m /\ NoConversion

(* case stateComplete, stateError *)
FinishedKey(key, rest) ==
    IF key \in {"ctrl+c", "q", "esc"}
    THEN /\ msgs' = [rest EXCEPT !.exit = "quit"]
         /\ UNCHANGED m /\ NoConversion
    ELSE IF key = "enter"
    THEN /\ m' = [m EXCEPT !.state = "stateFilePicker", !.selectedFiles = <<>>,
                           !.configs = <<>>, !.results = <<>>,
                           !.currentFileIndex = 0, !.err = ""]
         /\ msgs' = rest /\ NoConversion
    ELSE /\ msgs' = rest
         /\ UNCHANGED m /\ NoConversion

(* UpdateKeyMsg with the quit keys handled before the switch on m.state *)
UpdateKeyMsg_QuitAnywhere ==
    /\ msgs.exit = "none"
    /\ msgs.keys # <<>>
    /\ LET key  == Head(msgs.keys)
           rest == [msgs EXCEPT !.keys = Tail(@)]
       IN  IF key \in {"ctrl+c", "q"}
           THEN /\ msgs' = [rest EXCEPT !.exit = "quit"]
                /\ UNCHANGED m /\ NoConversion
           ELSE IF m.state = "stateFilePicker" THEN FilePickerKey(key, rest)
           ELSE IF m.state = "stateColumnSelection" THEN ColumnSelectionKey(key, rest)
           ELSE IF m.state \in {"stateComplete", "stateError"} THEN FinishedKey(key, rest)
           ELSE /\ msgs' = rest
                /\ UNCHANGED m /\ NoConversion
    /\ UNCHANGED <<fnVars, callVars, disk, pc, localVars, emitted, dropped, received, result>>

(* Update, tea.KeyMsg: the switch on m.state has no case for stateLoading    *)
(* and stateProcessing                                                       *)
UpdateKeyMsg ==
    /\ msgs.exit = "none"
    /\ msgs.keys # <<>>
    /\ LET key  == Head(msgs.keys)
           rest == [msgs EXCEPT !.keys = Tail(@)]
       IN  IF m.state = "stateFilePicker" THEN FilePickerKey(key, rest)
           ELSE IF m.state = "stateColumnSelection" THEN ColumnSelectionKey(key, rest)
           ELSE IF m.state \in {"stateComplete", "stateError"} THEN FinishedKey(key, rest)
           ELSE /\ msgs' = rest
                /\ UNCHANGED m /\ NoConversion
    /\ UNCHANGED <<fnVars, callVars, disk, pc, localVars, emitted, dropped, received, result>>

(* the command of loadFile: it reads the file and returns fileLoadedMsg *)
LoadFile ==
    /\ msgs.exit = "none"
    /\ \E j \in 1..Len(msgs.load) :
          msgs' = [msgs EXCEPT !.load = Remove(@, j),
                               !.loaded = Append(@, ReadFileData(msgs.load[j]))]
    /\ UNCHANGED <<fnVars, engineVars, m, resultChans, cmds, workers, handled>>

(* the headers that are not blank, as 0-based indices in order *)
RECURSIVE Selectable(_, _)
Selectable(hdrs, n) ==
    IF n >= Len(hdrs) THEN <<>>
    ELSE (IF TrimSpace(hdrs[n + 1]) # "" THEN <<n>> ELSE <<>>) \o Selectable(hdrs, n + 1)

(* Update, fileLoadedMsg *)
UpdateFileLoadedMsg ==
    /\ msgs.exit = "none"
    /\ \E j \in 1..Len(msgs.loaded) :
          LET msg  == msgs.loaded[j]
              rest == [msgs EXCEPT !.loaded = Remove(@, j)]
          IN  IF msg.status = "error"
              THEN /\ m' = [m EXCEPT !.err = msg.err, !.state = "stateError"]
                   /\ msgs' = rest
              ELSE IF ~(m.currentFileIndex < Len(m.selectedFiles))
              THEN /\ msgs' = [rest EXCEPT !.exit = "panic"]
                   /\ UNCHANGED m
              ELSE LET detected == AutoDetectColumns(msg)
                       config   ==
                           [path              |-> m.selectedFiles[m.currentFileIndex + 1],
                            fileData          |-> msg,
                            detectedCols      |-> detected,
                            selectedCols      |-> [x \in Range(detected) |-> TRUE],
                            selectableIndices |-> Selectable(msg.Headers, 0),
                            keepOriginal      |-> FALSE,
                            cursor            |-> 0]
                   IN  /\ m' = [m EXCEPT
                                  !.configs = IF Len(@) <= m.currentFileIndex
                                              THEN Append(@, config)
                                              ELSE [@ EXCEPT ![m.currentFileIndex + 1] = config],
                                  !.state = "stateColumnSelection"]
                       /\ msgs' = rest
    /\ UNCHANGED <<fnVars, engineVars, resultChans, cmds, workers, handled>>

(* The program from its start up to the start of the batch: the picker,     *)
(* the loading and the choice of the columns of every file.                  *)
SelectDisk ==
    ("hours.csv" :> File(Example))
    @@ ("blank.csv" :> File(<< <<"", " ">>, <<"1.5", "2.0">> >>))
    @@ ("empty.csv" :> File(<<>>))

InitSelect ==
    /\ FnIdle
    /\ kind = "none" /\ inputPath = "" /\ outputPath = "" /\ inputBefore = NoFile
    /\ disk = SelectDisk
    /\ progressChan = Nil /\ progressChans = <<>> /\ NoProgress
    /\ columnIndices = <<>> /\ keepOriginal = FALSE /\ pc = "idle" /\ Locals0
    /\ result = NoResult
    /\ UiIdle

PressAnyKey == PressKey(Keys)

NextSelect == PressAnyKey \/ UpdateKeyMsg \/ LoadFile \/ UpdateFileLoadedMsg

SpecSelect == InitSelect /\ [][NextSelect]_vars

(* The batch with a user who presses keys while it is converted.             *)
ProcessingKeys == {"ctrl+c", "q", "enter"}

(* the program reads one key at a time: the next one is read when Update has *)
(* been handed the last                                                      *)
KeyWhileProcessing ==
    /\ m.state = "stateProcessing"
    /\ msgs.keys = <<>>
    /\ PressKey(ProcessingKeys)

(* a batch of two files replaced in place, or one file with its original kept *)
InitKeys ==
    /\ InitUI
    /\ \/ /\ m.selectedFiles = <<"hours.xlsx", "hours.csv">>
          /\ \A n \in 1..Len(m.configs) : ~m.configs[n].keepOriginal
       \/ /\ Len(m.selectedFiles) = 1
          /\ m.configs[1].keepOriginal

NextKeys == KeyEnter \/ KeyWhileProcessing \/ UpdateKeyMsg \/ RunUI

(* the Bubble Tea loop hands every message, the keys included, to Update;     *)
(* the goroutines of the conversion are scheduled whatever the keyboard does *)
SpecKeys == InitKeys /\ [][NextKeys]_vars /\ WF_vars(RunUI) /\ WF_vars(UpdateKeyMsg)

-----------------------------------------------------------------------------
(* Claims about DecimalToTime and IsDecimalHour (SpecFormat)               *)

HourField(t) == SubSeq(t, 1, Len(t) - 3)

MinuteField(t) == SubSeq(t, Len(t) - 1, Len(t))

(* round half up of the fractional part, in minutes *)
RoundedMinutes(v) == (120 * (v % Scale) + Scale) \div (2 * Scale)

(* C4: for every v >= 0 of the grid, DecimalToTime(v) is H:MM with h the    *)
(* integer part of v and m = floor((v - h) * 60 + 0.5); m = 60 carries into *)
(* the hour; the minute field is two digits in 00..59 and the hour field is *)
(* zero-padded to at least two digits and not capped at 24.                 *)
C4_DecimalToTimeRoundsHalfUp ==
    (fn = "DecimalToTime" /\ arg >= 0) =>
        LET h    == arg \div Scale
            mins == RoundedMinutes(arg)
            expH == IF mins = 60 THEN h + 1 ELSE h
            expM == IF mins = 60 THEN 0 ELSE mins
        IN  /\ Len(ret) >= 5
            /\ CharAt(ret, Len(ret) - 2) = ":"
            /\ AllDigits(MinuteField(ret))
            /\ DigitsVal(MinuteField(ret)) = expM
            /\ DigitsVal(MinuteField(ret)) \in 0..59
            /\ AllDigits(HourField(ret))
            /\ DigitsVal(HourField(ret)) = expH
            /\ Len(HourField(ret)) >= 2
            /\ (Len(HourField(ret)) > 2 => CharAt(ret, 1) # "0")
            /\ (arg = 0 => ret = "00:00")
            /\ (arg = 25 * (Scale \div 100) => ret = "00:15")
            /\ (arg = 150 * (Scale \div 100) => ret = "01:30")
            /\ (arg = 101 * (Scale \div 100) => ret = "01:01")
            /\ (arg = 199 * (Scale \div 100) => ret = "01:59")
            /\ (arg = 12345 * (Scale \div 100) => ret = "123:27")

(* the 60th minute is carried at more than 100 hours *)
C4_Witness ==
    /\ fn = "DecimalToTime" /\ arg > 100 * Scale
    /\ RoundedMinutes(arg) = 60
    /\ ret = "124:00"

(* C5: DecimalToTime returns "00:00" for every v < 0 and a string for every *)
(* input.                                                                   *)
C5_NegativeClampsToZero ==
    fn = "DecimalToTime" =>
        /\ ret \in STRING
        /\ (arg < 0 => ret = "00:00")

C5_Witness == fn = "DecimalToTime" /\ 2 * arg = 0 - 3 * Scale /\ ret = "00:00"

(* a number written out: an optional sign, then digits with at most one     *)
(* point and at least one digit, and nothing else                           *)
IsNumberToken(t) ==
    LET body == IF t # "" /\ CharAt(t, 1) \in {"+", "-"} THEN Tail(t) ELSE t
    IN  /\ \A k \in 1..Len(body) : IsDigit(CharAt(body, k)) \/ CharAt(body, k) = "."
        /\ Cardinality({k \in 1..Len(body) : CharAt(body, k) = "."}) <= 1
        /\ \E k \in 1..Len(body) : IsDigit(CharAt(body, k))

(* C6: IsDecimalHour(s) is true iff the trimmed s is non-empty, the whole   *)
(* trimmed token parses as a number v, and 0 <= v < 10000.                  *)
C6_IsDecimalHourIffInRange ==
    fn = "IsDecimalHour" =>
        LET t == TrimSpace(arg)
        IN  /\ ret = (/\ t # ""
                      /\ IsNumberToken(t)
                      /\ ParseFloat(t).val >= 0
                      /\ ParseFloat(t).val < 10000 * Scale)
            /\ (arg \in {"", "   ", "abc", "-1", "-1.5", "10000", "10000.001", "1.5h"}
                    => ret = FALSE)
            /\ (arg \in {"0", "1", "1.5", "9999.999"} => ret = TRUE)

C6_Witness == fn = "IsDecimalHour" /\ arg = " 1.5 " /\ ret = TRUE

-----------------------------------------------------------------------------
(* Claims about AutoDetectColumns (SpecDetect) and findHeaderRow            *)
(* (SpecHeader)                                                             *)

(* C7: AutoDetectColumns returns, strictly ascending, exactly the columns   *)
(* i of the headers for which, in the first 10 data rows, no non-blank cell *)
(* fails IsDecimalHour and at least one non-blank cell exists; cells        *)
(* missing from short rows are skipped and rows after the 10th are not      *)
(* looked at.                                                               *)
C7_AutoDetectSamplesFirstTenRows ==
    fn = "AutoDetectColumns" =>
        LET rows           == arg.Rows
            sampled        == 1..(IF Len(rows) < 10 THEN Len(rows) ELSE 10)
            NonBlank(j, c) == c + 1 <= Len(rows[j]) /\ TrimSpace(rows[j][c + 1]) # ""
            Qualifies(c)   ==
                /\ \A j \in sampled : NonBlank(j, c) => IsDecimalHour(rows[j][c + 1])
                /\ \E j \in sampled : NonBlank(j, c)
        IN  /\ \A k \in 1..(Len(ret) - 1) : ret[k] < ret[k + 1]
            /\ {ret[k] : k \in 1..Len(ret)}
                  = {c \in 0..(Len(arg.Headers) - 1) : Qualifies(c)}

(* an invalid cell in the 11th row leaves the column detected *)
C7_Witness ==
    /\ fn = "AutoDetectColumns"
    /\ Len(arg.Rows) >= 11
    /\ Len(arg.Headers) = 2
    /\ arg.Rows[11] = <<"Alice", "Invalid">>
    /\ \A j \in 1..10 : arg.Rows[j] = <<"Alice", "7.5">>
    /\ ret = <<1>>

-----------------------------------------------------------------------------
(* Claims about ConvertCSV and ConvertXLSX (Spec).  The table read is       *)
(* compared with the table written once the call has returned a result.     *)

Returned == pc = "done" /\ result.status = "ok"

InTable == IF kind = "csv" THEN ReadAll(inputBefore.rows).records ELSE inputBefore.rows

OutTable == outputFile.rows

(* the header row, as a 1-based row of the table *)
HeaderAt == IF kind = "csv" THEN 1 ELSE findHeaderRow(GetRows(inputBefore.rows)) + 1

HeaderLabels == IF kind = "csv" THEN InTable[1] ELSE GetRows(InTable)[HeaderAt]

DataRowsOf(t) == {r \in 1..Len(t) : r > HeaderAt}

(* the valid selected columns, 0-based *)
Selected ==
    {c \in 0..(Len(HeaderLabels) - 1) : \E k \in 1..Len(columnIndices) : columnIndices[k] = c}

IsNumeric(cell) == TrimSpace(cell) # "" /\ IsNumberToken(TrimSpace(cell))

ValueOf(cell) == ParseFloat(TrimSpace(cell)).val

(* C1: replace-in-place (ConvertCSV and ConvertXLSX, keepOriginal = false): *)
(* in every data row, every cell of a valid selected column whose trimmed   *)
(* text is non-empty and parses as a float v is DecimalToTime(v) in the     *)
(* output; the README example yields [Alice,01:30] and [Bob,02:00].         *)
C1_ReplaceInPlaceConverts ==
    (Returned /\ ~keepOriginal) =>
        /\ \A r \in DataRowsOf(InTable) : \A c \in Selected :
              (c + 1 <= Len(InTable[r]) /\ IsNumeric(InTable[r][c + 1]))
                  => /\ r <= Len(OutTable) /\ c + 1 <= Len(OutTable[r])
                     /\ OutTable[r][c + 1] = DecimalToTime(ValueOf(InTable[r][c + 1]))
        /\ (InTable = Example /\ Selected = {1})
              => OutTable = << <<"Name", "Hours">>, <<"Alice", "01:30">>,
                               <<"Bob", "02:00">> >>

(* a padded cell and a cell that carries a minute, converted by both calls  *)
C1_Witness ==
    /\ Returned /\ ~keepOriginal /\ kind = "xlsx"
    /\ Selected = {1, 2}
    /\ \E r \in DataRowsOf(InTable) :
          /\ InTable[r] = <<"Dan", " 7.75 ", "-1">>
          /\ OutTable[r] = <<"Dan", "07:45", "00:00">>
    /\ \E r \in DataRowsOf(InTable) :
          /\ InTable[r] = <<"Eve", "1.992", "10000">>
          /\ OutTable[r] = <<"Eve", "02:00", "10000:00">>

(* the column of the output in which original column c lands when a new    *)
(* column follows every selected one (0-based)                              *)
Landing(c) == c + Cardinality({x \in Selected : x < c})

(* C2: insert-alongside of ConvertCSV: in the header row every selected     *)
(* label L is followed by L (HH:MM); in every data row every original cell  *)
(* is kept, a selected one is followed by DecimalToTime(v) if it parses as  *)
(* v and by "" otherwise, and the other cells keep their order.             *)
C2_CsvInsertAlongside ==
    (Returned /\ keepOriginal /\ kind = "csv") =>
        /\ Len(OutTable) = Len(InTable)
        /\ \A r \in 1..Len(InTable) :
              /\ Len(OutTable[r])
                    = Len(InTable[r]) + Cardinality({x \in Selected : x < Len(InTable[r])})
              /\ \A c \in 0..(Len(InTable[r]) - 1) :
                    /\ OutTable[r][Landing(c) + 1] = InTable[r][c + 1]
                    /\ c \in Selected =>
                          OutTable[r][Landing(c) + 2]
                             = IF r = 1 THEN InTable[r][c + 1] \o " (HH:MM)"
                               ELSE IF IsNumeric(InTable[r][c + 1])
                                    THEN DecimalToTime(ValueOf(InTable[r][c + 1]))
                                    ELSE ""
        /\ (InTable = Example /\ Selected = {1})
              => OutTable = << <<"Name", "Hours", "Hours (HH:MM)">>,
                               <<"Alice", "1.5", "01:30">>, <<"Bob", "2.0", "02:00">> >>

(* two selected columns, a converted cell and cells left empty *)
C2_Witness ==
    /\ Returned /\ keepOriginal /\ kind = "csv"
    /\ Selected = {1, 2}
    /\ OutTable[1] = <<"Name", "Hours", "Hours (HH:MM)", "Overtime", "Overtime (HH:MM)">>
    /\ Len(OutTable) = 3
    /\ OutTable[2] = <<"Carol", " ", "", "abc", "">>
    /\ OutTable[3] = <<"Alice", "1.5", "01:30", "0.25", "00:15">>

(* C3: frame of replace-in-place: the header row, the cells of columns that *)
(* are not validly selected and the selected cells that are empty, blank or *)
(* not a float are the same in the output; the number of rows and the       *)
(* length of every row are unchanged.                                       *)
C3_ReplaceInPlaceFrame ==
    (Returned /\ ~keepOriginal) =>
        /\ Len(OutTable) = Len(InTable)
        /\ \A r \in 1..Len(InTable) :
              /\ Len(OutTable[r]) = Len(InTable[r])
              /\ r <= HeaderAt => OutTable[r] = InTable[r]
              /\ \A c \in 0..(Len(InTable[r]) - 1) :
                    (c \notin Selected \/ ~IsNumeric(InTable[r][c + 1]))
                        => OutTable[r][c + 1] = InTable[r][c + 1]

(* a blank and a non-numeric cell of selected columns are left as they are  *)
(* while another row is converted                                           *)
C3_Witness ==
    /\ Returned /\ ~keepOriginal /\ kind = "csv"
    /\ Selected = {1, 2}
    /\ Len(OutTable) = 3
    /\ OutTable[2] = <<"Carol", " ", "abc">>
    /\ OutTable[3] = <<"Bob", "02:00", "">>

(* the header labels of the valid entries of the selection, in the order    *)
(* the entries were supplied                                                *)
RECURSIVE LabelsInOrder(_)
LabelsInOrder(indices) ==
    IF indices = <<>> THEN <<>>
    ELSE (IF Head(indices) \in Selected THEN <<HeaderLabels[Head(indices) + 1]>> ELSE <<>>)
         \o LabelsInOrder(Tail(indices))

ConvertedCells ==
    {<<r, c>> \in DataRowsOf(InTable) \X Selected :
        c + 1 <= Len(InTable[r]) /\ IsNumeric(InTable[r][c + 1])}

(* C10 as stated: rows_processed is the number of converted cells for       *)
(* replace-in-place (CSV and XLSX) and for XLSX insert-alongside, and the   *)
(* number of data rows for CSV insert-alongside.                            *)
C10_AsStated ==
    Returned =>
        result.RowsProcessed
            = IF kind = "csv" /\ keepOriginal
              THEN Cardinality(DataRowsOf(InTable))
              ELSE Cardinality(ConvertedCells)

(* C10 amended: rows_processed is the number of data rows for ConvertCSV,   *)
(* in both strategies, and the number of converted cells for ConvertXLSX,   *)
(* in both strategies.                                                      *)
C10_RowsProcessedUnits ==
    Returned =>
        result.RowsProcessed
            = IF kind = "csv"
              THEN Cardinality(DataRowsOf(InTable))
              ELSE Cardinality(ConvertedCells)

(* ConvertCSV replace-in-place reports its two data rows although one cell  *)
(* was converted; ConvertXLSX reports converted cells                       *)
C10_Witness ==
    /\ Returned /\ ~keepOriginal /\ kind = "csv"
    /\ Cardinality(DataRowsOf(InTable)) = 2
    /\ Cardinality(ConvertedCells) = 1
    /\ result.RowsProcessed = 2

-----------------------------------------------------------------------------
(* Claims about the files of a conversion (Spec)                            *)

(* the file at outputPath when the call was made *)
OutputBefore == IF outputPath = inputPath THEN inputBefore ELSE NoFile

(* C11: all-or-nothing output: whenever ConvertCSV or ConvertXLSX has       *)
(* returned an error, the call has left no file, complete or partial, at    *)
(* output_path: what is found there is what was there before the call.      *)
C11_AllOrNothingOutput ==
    (pc = "done" /\ result.status = "error") => outputFile = OutputBefore

(* C12: the engine never mutates the input file: for every call of          *)
(* ConvertCSV or ConvertXLSX, with any output path and whether the call     *)
(* succeeds or fails, the file at input_path after the call equals the file *)
(* that was there before the call.                                          *)
C12_InputFileUnchanged ==
    pc = "done" => inputFile = inputBefore

-----------------------------------------------------------------------------
(* Claims about the progress reports (SpecProgress)                         *)

(* the row the conversion must write for row r of the table read *)
ExpectedRow(r) ==
    IF r < HeaderAt THEN InTable[r]
    ELSE IF keepOriginal THEN NewRow(InTable[r], 0, r - HeaderAt, Selected)
    ELSE IF r = HeaderAt THEN InTable[r]
    ELSE ReplacedRow(InTable[r], Selected)

(* rows of a sheet are the same when they differ in blank cells at the tail *)
SameRow(a, b) == TrimTail(a, "") = TrimTail(b, "")

OutputAsExpected ==
    /\ Len(OutTable) = Len(InTable)
    /\ \A r \in 1..Len(InTable) :
          IF kind = "csv" THEN OutTable[r] = ExpectedRow(r)
          ELSE SameRow(OutTable[r], ExpectedRow(r))

ExpectedResult ==
    Success(LabelsInOrder(columnIndices),
            IF kind = "csv" THEN Cardinality(DataRowsOf(InTable))
            ELSE Cardinality(ConvertedCells))

(* the channel can take nothing more and nobody is waiting for a value *)
ChanFull ==
    /\ progressChans[progressChan].recv = 0
    /\ Len(progressChans[progressChan].buf) >= progressChans[progressChan].cap

(* C13: progress emission never blocks the engine: whatever the consumer    *)
(* does (it never receives, receives now and then, the channel is full,     *)
(* unbuffered or nil), ConvertCSV and ConvertXLSX reach their return; a     *)
(* report that cannot be sent at once is discarded in the step that makes   *)
(* it (the buffer never exceeds its capacity, the loop moves on, nothing is *)
(* kept for later); and the table written and the result returned are the   *)
(* ones the input determines, also when reports were dropped.               *)
C13_ProgressNeverBlocks ==
    /\ <>(pc = "done")
    /\ [][/\ \A c \in 1..Len(progressChans') :
                Len(progressChans'[c].buf) <= progressChans'[c].cap
          /\ emitted' # emitted =>
                /\ Len(emitted') = Len(emitted) + 1
                /\ i' = i + 1
                /\ ChanFull => /\ progressChans' = progressChans
                               /\ received' = received
                               /\ dropped' = dropped + 1
          /\ progressChan # Nil =>
                Len(emitted') = Len(received')
                                   + Len(progressChans'[progressChan].buf) + dropped'
         ]_vars
    /\ [](Returned => (OutputAsExpected /\ result = ExpectedResult))

(* a spreadsheet converted to the end on a full channel: the consumer took  *)
(* the first report late and three reports were dropped                     *)
C13_Witness ==
    /\ Returned /\ kind = "xlsx" /\ keepOriginal
    /\ progressChan # Nil
    /\ Len(emitted) = 4 /\ dropped = 3 /\ Len(received) = 1
    /\ OutTable[2] = <<"Alice", "1.5", "01:30", "0.25", "00:15">>

IsFraction(v) == v[2] > 0 /\ 0 <= v[1] /\ v[1] <= v[2]

(* C14: every value ConvertCSV or ConvertXLSX sends on the progress channel *)
(* (attempted, buffered or received), in either strategy, is a fraction     *)
(* num / den with den > 0 and 0 <= num <= den.                              *)
C14_ProgressInUnitInterval ==
    /\ \A k \in 1..Len(emitted) : IsFraction(emitted[k])
    /\ \A k \in 1..Len(received) : IsFraction(received[k])
    /\ \A c \in 1..Len(progressChans) :
          \A k \in 1..Len(progressChans[c].buf) : IsFraction(progressChans[c].buf[k])

(* the last report of a spreadsheet replace is 2/2 and reaches the consumer; *)
(* the first report of a text insert-alongside is 0/3                        *)
C14_Witness ==
    /\ pc = "done" /\ kind = "xlsx" /\ ~keepOriginal
    /\ emitted = << <<1, 2>>, <<2, 2>> >>
    /\ received = << <<2, 2>> >>

-----------------------------------------------------------------------------
(* Claims about ragged tables (Spec)                                        *)

(* the rows a reader of the input finds: the non-blank lines of a CSV file, *)
(* the rows of the first sheet as GetRows returns them                      *)
RowsRead ==
    IF kind = "csv" THEN SelectSeq(inputBefore.rows, LAMBDA r : Len(r) > 0)
    ELSE GetRows(inputBefore.rows)

(* the input has a header row and a data row with fewer cells than it *)
RaggedInput ==
    /\ inputBefore.exists
    /\ HeaderAt >= 1 /\ HeaderAt <= Len(RowsRead)
    /\ \E r \in (HeaderAt + 1)..Len(RowsRead) : Len(RowsRead[r]) < Len(RowsRead[HeaderAt])

(* C16: ragged rows are tolerated: converting a table in which some data    *)
(* row has fewer cells than the header row never fails on the table, for    *)
(* CSV and for XLSX sources: the call succeeds, or fails only in creating   *)
(* or writing the output file.                                              *)
C16_RaggedRowsTolerated ==
    (pc = "done" /\ RaggedInput) =>
        \/ result.status = "ok"
        \/ result.err \in {"create", "write", "save"}

-----------------------------------------------------------------------------
(* Claims about the width of the rows under insert-alongside (Spec)         *)

(* the rows of a table as a reader finds them: the records of a CSV file,   *)
(* the rows GetRows returns for a sheet                                     *)
RowsOf(t) == IF kind = "csv" THEN t ELSE GetRows(t)

(* the width the spreadsheet strategy gives a data row: one more cell for   *)
(* every selected column left of the row's last cell, and one more when the  *)
(* last cell itself is selected and converted                               *)
XlsxWidth(row) ==
    Len(row)
    + Cardinality({c \in Selected : c < Len(row) - 1})
    + (IF row # <<>> /\ (Len(row) - 1) \in Selected /\ IsNumeric(row[Len(row)])
       THEN 1 ELSE 0)

(* C17 as stated: under insert-alongside every row of the table, the header *)
(* row and every data row, has exactly k more cells in the output than in   *)
(* the input, k the number of distinct valid selected columns.              *)
C17_AsStated ==
    (Returned /\ keepOriginal) =>
        \A r \in HeaderAt..Len(RowsOf(InTable)) :
            /\ r <= Len(RowsOf(OutTable))
            /\ Len(RowsOf(OutTable)[r]) = Len(RowsOf(InTable)[r]) + Cardinality(Selected)

(* C17: under insert-alongside ConvertCSV gives every row, header and data, *)
(* exactly k more cells, the new cell being "" where nothing was converted; *)
(* ConvertXLSX gives the header row exactly k more cells and writes no cell *)
(* where nothing was converted, so a data row gets one more cell for every  *)
(* selected column left of its last cell, one more when its last cell is    *)
(* selected and converted, and never more than k.                           *)
C17_RowWidth ==
    (Returned /\ keepOriginal) =>
        /\ Len(RowsOf(OutTable)) = Len(RowsOf(InTable))
        /\ Len(RowsOf(OutTable)[HeaderAt])
              = Len(RowsOf(InTable)[HeaderAt]) + Cardinality(Selected)
        /\ \A r \in (HeaderAt + 1)..Len(RowsOf(InTable)) :
              LET in  == RowsOf(InTable)[r]
                  out == RowsOf(OutTable)[r]
              IN  /\ Len(out) <= Len(in) + Cardinality(Selected)
                  /\ kind = "csv" =>
                        /\ Len(out) = Len(in) + Cardinality(Selected)
                        /\ \A c \in Selected :
                              ~IsNumeric(in[c + 1]) => out[Landing(c) + 2] = ""
                  /\ kind = "xlsx" => Len(out) = XlsxWidth(in)

(* a sheet whose header row gets two more cells and whose data row gets one *)
C17_Witness ==
    /\ Returned /\ keepOriginal /\ kind = "xlsx"
    /\ Selected = {1, 2}
    /\ Len(GetRows(InTable)) > HeaderAt
    /\ GetRows(InTable)[HeaderAt] = Header3
    /\ GetRows(OutTable)[HeaderAt]
          = <<"Name", "Hours", "Hours (HH:MM)", "Overtime", "Overtime (HH:MM)">>
    /\ GetRows(InTable)[HeaderAt + 1] = <<"Carol", " ", "abc">>
    /\ GetRows(OutTable)[HeaderAt + 1] = <<"Carol", " ", "", "abc">>

-----------------------------------------------------------------------------
(* Claims about converting a converted file again (SpecRerun)               *)

(* the call is the second one: its input is the file the first call wrote *)
SecondRun == kind # "none" /\ inputPath = OutputPath(InputPath(kind))

(* C18: no double conversion: IsDecimalHour(DecimalToTime(v)) is false for  *)
(* every v, and a replace-in-place conversion of the output of a            *)
(* replace-in-place conversion, with the same selected columns, writes a    *)
(* table equal to that output: no HH:MM cell is converted a second time.    *)
C18_NoDoubleConversion ==
    /\ fn = "DecimalToTime" => ~IsDecimalHour(ret)
    /\ (SecondRun /\ Returned) =>
          /\ outputFile.rows = inputBefore.rows
          /\ kind = "xlsx" => result.RowsProcessed = 0

(* the second run has returned on a table with converted cells *)
C18_Witness ==
    /\ SecondRun /\ Returned
    /\ columnIndices = <<1, 2>>
    /\ Len(RowsOf(OutTable)) > HeaderAt
    /\ RowsOf(inputBefore.rows)[HeaderAt + 1] = <<"Dan", "07:45", "00:00">>
    /\ RowsOf(OutTable)[HeaderAt + 1] = <<"Dan", "07:45", "00:00">>

-----------------------------------------------------------------------------
(* Claims comparing the two insert-alongside strategies (Spec)              *)

(* from the header row on, every row of the sheet has the header's width *)
Rectangular ==
    /\ HeaderAt >= 1
    /\ \A r \in HeaderAt..Len(InTable) : Len(InTable[r]) = Len(InTable[HeaderAt])

(* the cell at 0-based column c of a row, blank where the row has none *)
CellOf(row, c) == IF c < Len(row) THEN row[c + 1] ELSE ""

(* C19: the two insert-alongside strategies agree: on a rectangular table   *)
(* ConvertXLSX, inserting a column after each selected column from right to *)
(* left, writes the header row and the data cells that the left-to-right    *)
(* row rebuild of ConvertCSV writes: original column c lands at             *)
(* c + |{selected s : s < c}|, its " (HH:MM)" column is immediately to its   *)
(* right, and no insertion moves a column that is processed later.          *)
C19_InsertStrategiesAgree ==
    (Returned /\ keepOriginal /\ kind = "xlsx" /\ Rectangular) =>
        /\ Len(OutTable) = Len(InTable)
        /\ \A r \in HeaderAt..Len(InTable) :
              /\ SameRow(OutTable[r], NewRow(InTable[r], 0, r - HeaderAt, Selected))
              /\ \A c \in 0..(Len(InTable[r]) - 1) :
                    /\ CellOf(OutTable[r], Landing(c)) = InTable[r][c + 1]
                    /\ c \in Selected =>
                          CellOf(OutTable[r], Landing(c) + 1)
                             = IF r = HeaderAt THEN InTable[r][c + 1] \o " (HH:MM)"
                               ELSE IF IsNumeric(InTable[r][c + 1])
                                    THEN DecimalToTime(ValueOf(InTable[r][c + 1]))
                                    ELSE ""

(* two columns selected out of order, below a banner *)
C19_Witness ==
    /\ Returned /\ keepOriginal /\ kind = "xlsx" /\ Rectangular
    /\ columnIndices = <<2, 1>>
    /\ HeaderAt = 3
    /\ Len(InTable) = 5
    /\ OutTable[3] = <<"Name", "Hours", "Hours (HH:MM)", "Overtime", "Overtime (HH:MM)">>
    /\ OutTable[4] = <<"Dan", " 7.75 ", "07:45", "-1", "00:00">>
    /\ InTable[5] = <<"Carol", " ", "abc">>
    /\ OutTable[5] = <<"Carol", " ", "", "abc">>

-----------------------------------------------------------------------------
(* Claims about the table reader (SpecRead)                                 *)

(* C20: Table Reader split: for a CSV file ReadFileData returns the first   *)
(* record as Headers and the remaining records, in order, as Rows; for a    *)
(* sheet with h = findHeaderRow(rows) it returns Headers = rows[h],         *)
(* Rows = rows[h+1..] in order and HeaderRow = h, the rows before h being   *)
(* discarded; ConvertXLSX on the same sheet finds the same h and the same   *)
(* headers, and its first data row is physical row h + 2 (1-based), the     *)
(* first of Rows.                                                           *)
C20_TableReaderSplit ==
    (fn = "ReadFileData" /\ ret.status = "ok") =>
        /\ kind = "csv" =>
              /\ ret.Headers = RowsRead[1]
              /\ ret.HeaderRow = 0
        /\ kind = "xlsx" =>
              /\ ret.HeaderRow = findHeaderRow(RowsRead)
              /\ ret.Headers = RowsRead[ret.HeaderRow + 1]
              /\ \A k \in 1..Len(ret.Rows) : \A c \in 1..Len(ret.Rows[k]) :
                    ret.Rows[k][c]
                       = GetCellValue(inputBefore.rows, c, ret.HeaderRow + 1 + k)
        /\ Len(ret.Rows) = Len(RowsRead) - (ret.HeaderRow + 1)
        /\ \A k \in 1..Len(ret.Rows) : ret.Rows[k] = RowsRead[ret.HeaderRow + 1 + k]
        /\ (kind = "xlsx" /\ pc \in {"cols", "rows", "loop"}) =>
              /\ headerRowIdx = ret.HeaderRow
              /\ headers = ret.Headers
              /\ i >= ret.HeaderRow + 2
              /\ i <= Len(records) => records[i] = ret.Rows[i - (ret.HeaderRow + 1)]

(* a sheet with two banner rows is read and its conversion has begun *)
C20_Witness ==
    /\ fn = "ReadFileData" /\ ret.status = "ok" /\ kind = "xlsx"
    /\ inputBefore.rows
          = << <<"Timesheet">>, <<>>, Header3, <<"Alice", "1.5", "0.25">>, <<"Bob", "2.0", "">> >>
    /\ ret.HeaderRow = 2
    /\ ret.Headers = Header3
    /\ ret.Rows = << <<"Alice", "1.5", "0.25">>, <<"Bob", "2.0">> >>
    /\ pc = "loop" /\ headerRowIdx = 2 /\ i = 4

-----------------------------------------------------------------------------
(* Claims about the delivery of the result of a conversion (SpecUI)         *)

(* convertNextFile has started conversion k *)
Started(k) == k <= Len(workers)

(* the conversionCompleteMsg of conversion k on their way to Update *)
CompleteInFlight(k) == {j \in 1..Len(msgs.complete) : msgs.complete[j].from = k}

(* Update has received one conversionCompleteMsg of conversion k *)
Delivered(k) == k <= Len(handled) /\ handled[k] = 1

(* C15: terminal result delivery: for each conversion started by            *)
(* convertNextFile, Update eventually receives exactly one                  *)
(* conversionCompleteMsg, carrying the result or error its worker got from  *)
(* the conversion: never two, whatever the interleaving of the worker and   *)
(* the pending waitForProgress receivers, and never zero, however many      *)
(* progress ticks were dropped.                                             *)
C15_ExactlyOneResult ==
    /\ [](\A k \in 1..Len(workers) :
             /\ handled[k] + Cardinality(CompleteInFlight(k)) <= 1
             /\ \A j \in CompleteInFlight(k) :
                   /\ workers[k].pc \in {"closeProgress", "closeResult", "exit"}
                   /\ msgs.complete[j].res = workers[k].result)
    /\ \A k \in 1..MaxSelectedFiles : Started(k) ~> Delivered(k)

(* both conversions of a batch were delivered once, the second one after    *)
(* ticks were dropped and while a second receiver was still waiting         *)
C15_Witness ==
    /\ m.state = "stateComplete"
    /\ handled = <<1, 1>>
    /\ Len(m.results) = 2
    /\ dropped > 0
    /\ cmds[2].onProgress + cmds[2].onResult > 0


-----------------------------------------------------------------------------
(* Claims about the engine's conversion rule (Spec)                         *)

(* where the converted text of 0-based column c is found in an output row *)
ConvertedAt(row, c) ==
    IF keepOriginal THEN CellOf(row, Landing(c) + 1) ELSE CellOf(row, c)

(* C30: ConvertCSV and ConvertXLSX convert a cell of a selected column iff   *)
(* its trimmed text is non-empty and parses as a float, whatever            *)
(* IsDecimalHour says about it: a negative number becomes "00:00", a number  *)
(* >= 10000 becomes its H:MM text, and under replace-in-place the original   *)
(* text of such a cell is overwritten; a cell that does not parse is left    *)
(* as it was (replace) or gets a blank neighbour (insert).                   *)
C30_ConvertsIffParses ==
    Returned =>
        \A r \in DataRowsOf(InTable) : \A c \in Selected :
            LET cell == CellOf(InTable[r], c)
                out  == ConvertedAt(OutTable[r], c)
            IN  /\ IsNumeric(cell) => out = DecimalToTime(ValueOf(cell))
                /\ ~IsNumeric(cell) => out = (IF keepOriginal THEN "" ELSE cell)
                /\ (IsNumeric(cell) /\ ValueOf(cell) < 0) => out = "00:00"
                /\ (IsNumeric(cell) /\ ValueOf(cell) >= 10000 * Scale) =>
                      /\ ~IsDecimalHour(cell)
                      /\ Len(out) >= 8
                      /\ SubSeq(out, Len(out) - 2, Len(out) - 2) = ":"
                /\ (IsNumeric(cell) /\ ~keepOriginal) => out # cell

(* replace-in-place overwrites "-1" and "10000", both outside the           *)
(* classifier's range                                                       *)
C30_Witness ==
    /\ Returned /\ ~keepOriginal
    /\ columnIndices = <<1, 2>>
    /\ \E r \in DataRowsOf(InTable) :
          /\ InTable[r] = <<"Dan", " 7.75 ", "-1">>
          /\ ~IsDecimalHour("-1")
          /\ OutTable[r] = <<"Dan", "07:45", "00:00">>
    /\ \E r \in DataRowsOf(InTable) :
          /\ InTable[r] = <<"Eve", "1.992", "10000">>
          /\ ~IsDecimalHour("10000")
          /\ OutTable[r] = <<"Eve", "02:00", "10000:00">>


-----------------------------------------------------------------------------
(* Claims about the order of the progress values (SpecProgress)             *)

(* num1/den1 < num2/den2 for fractions with positive denominators *)
Below(v, w) == v[1] * w[2] < w[1] * v[2]

StrictlyIncreasing(seq) ==
    \A a, b \in 1..Len(seq) : a < b => Below(seq[a], seq[b])

RECURSIVE IsSubsequence(_, _)
IsSubsequence(sub, seq) ==
    IF sub = <<>> THEN TRUE
    ELSE IF seq = <<>> THEN FALSE
    ELSE IF Head(sub) = Head(seq) THEN IsSubsequence(Tail(sub), Tail(seq))
    ELSE IsSubsequence(sub, Tail(seq))

(* what the consumer has taken from the channel, then what waits in it *)
Accepted ==
    received \o (IF progressChan = Nil THEN <<>> ELSE progressChans[progressChan].buf)

(* C24: progress is monotone: within one call of ConvertCSV or ConvertXLSX,  *)
(* in either strategy, the values the engine attempts to send are strictly   *)
(* increasing in emission order, and what the consumer receives, with what   *)
(* still waits in the channel, is a subsequence of them and so strictly      *)
(* increasing too.                                                           *)
C24_ProgressMonotone ==
    /\ \A k \in 1..Len(emitted) : emitted[k][2] > 0
    /\ StrictlyIncreasing(emitted)
    /\ IsSubsequence(Accepted, emitted)
    /\ StrictlyIncreasing(Accepted)

(* a spreadsheet insert-alongside of two columns over two data rows: four    *)
(* attempts 1/4 .. 4/4, of which the consumer got the first and the third    *)
C24_Witness ==
    /\ pc = "done" /\ kind = "xlsx" /\ keepOriginal
    /\ columnIndices = <<2, 1>>
    /\ emitted = << <<1, 4>>, <<2, 4>>, <<3, 4>>, <<4, 4>> >>
    /\ received = << <<1, 4>>, <<3, 4>> >>


-----------------------------------------------------------------------------
(* Format errors: ReadFileData and the conversions on any path              *)

(* paths with the extension in either case, with another one, with none *)
ReadPaths ==
    {"hours.csv", "HOURS.CSV", "hours.xlsx", "Hours.Xlsx", "notes.txt",
     "hours.xls", "hours.csv.bak", "hours"}

(* the decoder an extension selects; with any other extension the engine    *)
(* functions can still be called directly                                   *)
KindsOf(path) ==
    IF ToLower(Ext(path)) = ".csv" THEN {"csv"}
    ELSE IF ToLower(Ext(path)) = ".xlsx" THEN {"xlsx"}
    ELSE {"csv", "xlsx"}

(* no file, an empty one, one of blank lines or blank cells only, a table,  *)
(* a sheet of numbers and a single label                                    *)
FormatFiles(k) ==
    {NoFile, File(<<>>), File(Example), File(<<Header3, <<"Alice", "1.5", "0.25">> >>)}
    \cup (IF k = "csv"
          THEN {File(<< <<>>, <<>> >>), File(<< <<"1", "2">> >>)}
          ELSE {File(b \o Example) : b \in Banners}
               \cup {File(<< <<"Timesheet">>, <<"1", "2">> >>),
                     File(<< <<"1.5", "2.0">>, <<"", "7">> >>),
                     File(<< <<"", " ">>, <<>> >>)})

InitAnyPath ==
    /\ FnIdle /\ UiIdle
    /\ \E path \in ReadPaths : \E k \in KindsOf(path) : \E file \in FormatFiles(k) :
          /\ kind = k
          /\ inputPath = path
          /\ outputPath = OutputPath(path)
          /\ inputBefore = file
          /\ disk = IF file.exists THEN (path :> file) ELSE <<>>
    /\ progressChan = Nil /\ progressChans = <<>> /\ NoProgress
    /\ pc = "start" /\ Locals0 /\ result = NoResult
    /\ columnIndices \in {<<>>, <<1>>}
    /\ keepOriginal \in BOOLEAN

SpecAnyPath == InitAnyPath /\ [][NextRead]_vars

(* the extension is neither .csv nor .xlsx, in any case *)
Unsupported(path) == ToLower(Ext(path)) \notin {".csv", ".xlsx"}

(* the source exists and holds no record, no row *)
EmptySource == inputBefore.exists /\ RowsRead = <<>>

(* the sheet has rows, none of them with two non-blank cells and a letter *)
NoHeaderRow ==
    /\ inputBefore.exists /\ kind = "xlsx" /\ RowsRead # <<>>
    /\ \A r \in 1..Len(RowsRead) :
          ~(nonEmptyCount(RowsRead[r]) >= 2 /\ hasText(RowsRead[r]))

HasPrefix(s, prefix) == Len(s) >= Len(prefix) /\ SubSeq(s, 1, Len(prefix)) = prefix

(* the failure reason a caller can tell from an error *)
Reason(e) ==
    IF HasPrefix(e.err, "unsupported file type") THEN "unsupported"
    ELSE IF e.err \in {"empty file", "empty CSV file", "empty XLSX file"} THEN "empty"
    ELSE IF e.err = "could not find header row" THEN "no header"
    ELSE "other"

(* an error and nothing else: no table, no result *)
OnlyError(r) == r.status = "error" /\ DOMAIN r = {"status", "err"}

(* C21: format errors are distinct failures: ReadFileData returns an error   *)
(* and no table on a path whose extension is neither .csv nor .xlsx in any   *)
(* case, on an empty source, and on a sheet without a header row, each with  *)
(* its own reason; ConvertCSV and ConvertXLSX return an error and no result  *)
(* on an empty source and on a sheet without a header row.                   *)
C21_FormatErrors ==
    /\ fn = "ReadFileData" =>
          /\ Unsupported(arg) => OnlyError(ret) /\ Reason(ret) = "unsupported"
          /\ (~Unsupported(arg) /\ EmptySource) => OnlyError(ret) /\ Reason(ret) = "empty"
          /\ (~Unsupported(arg) /\ NoHeaderRow) => OnlyError(ret) /\ Reason(ret) = "no header"
          /\ (ret.status = "error" /\ Reason(ret) = "unsupported") => Unsupported(arg)
          /\ (ret.status = "error" /\ Reason(ret) = "empty") => EmptySource
          /\ (ret.status = "error" /\ Reason(ret) = "no header") => NoHeaderRow
    /\ pc = "done" =>
          /\ EmptySource => OnlyError(result) /\ Reason(result) = "empty"
          /\ NoHeaderRow => OnlyError(result) /\ Reason(result) = "no header"
          /\ (EmptySource \/ NoHeaderRow) => ~outputFile.exists

(* a sheet of a banner and numbers at a path in mixed case: the reader and  *)
(* the conversion both fail on the header row, and nothing is written       *)
C21_Witness ==
    /\ fn = "ReadFileData" /\ pc = "done"
    /\ arg = "Hours.Xlsx" /\ ~Unsupported(arg)
    /\ inputBefore = File(<< <<"Timesheet">>, <<"1", "2">> >>)
    /\ NoHeaderRow /\ ~EmptySource
    /\ ret = Failure("could not find header row")
    /\ result = Failure("could not find header row")


-----------------------------------------------------------------------------
(* Claims about a batch of conversions (SpecUI)                             *)

(* the conversion of the k-th file of the batch returned an error *)
Failed(k) == k <= Len(workers) /\ workers[k].result.status = "error"

(* C29: batch outcome: whenever the UI is in stateComplete, results holds    *)
(* one ConversionResult per selected file, the k-th being what the          *)
(* conversion of the k-th selected file returned; if the conversion of file  *)
(* k returns an error the UI enters stateError with that error, no           *)
(* conversion of a later file is started and stateComplete is not reached.   *)
C29_BatchOutcome ==
    /\ [](m.state = "stateComplete" =>
             /\ Len(m.results) = Len(m.selectedFiles)
             /\ Len(workers) = Len(m.selectedFiles)
             /\ \A k \in 1..Len(m.results) :
                   /\ cmds[k].config.path = m.selectedFiles[k]
                   /\ m.results[k] = workers[k].result
                   /\ m.results[k].status = "ok")
    /\ [](\A k \in 1..Len(workers) :
             Failed(k) => /\ Len(workers) = k
                          /\ m.state \in {"stateProcessing", "stateError"}
                          /\ m.state = "stateError" => m.err = workers[k].result.err)
    /\ \A k \in 1..MaxSelectedFiles : Failed(k) ~> (m.state = "stateError")

(* a spreadsheet then a text file: the first result counts the converted    *)
(* cell, the second the data rows                                           *)
C29_Witness ==
    /\ m.state = "stateComplete"
    /\ m.selectedFiles = <<"hours.xlsx", "hours.csv">>
    /\ Len(m.results) = 2
    /\ m.results[1].RowsProcessed = 1
    /\ m.results[2].RowsProcessed = 2


-----------------------------------------------------------------------------
(* Claims about the worker goroutine and its channels (SpecWorker)          *)

(* the goroutines and the conversion they call; the receivers and Update    *)
(* are left out                                                             *)
WorkerSteps ==
    \/ \E k \in 1..Len(cmds) : Launch(k)
    \/ Next
    \/ \E k \in 1..Len(workers) :
          WorkerSendResult(k) \/ WorkerCloseProgress(k) \/ WorkerCloseResult(k)

(* the scheduler runs the worker goroutine; nothing is assumed of the       *)
(* receivers, of Update or of the user                                      *)
SpecWorker == InitUI /\ [][NextUI]_vars /\ WF_vars(WorkerSteps)

(* the results that went through the result channel of conversion k *)
ResultsSent(k) ==
    Len(resultChans[k].buf) + Cardinality(CompleteInFlight(k)) + handled[k]

(* C25: channel safety of the worker started by convertNextFile: the result *)
(* is sent on resultChan exactly once and the send finds room; progressChan  *)
(* and resultChan are each closed once, after the conversion has returned    *)
(* and the result was sent, so nothing is sent on a closed channel and no    *)
(* channel is closed twice; and the worker terminates even if nothing is     *)
(* ever received.                                                            *)
C25_WorkerChannelSafety ==
    /\ [](\A k \in 1..Len(workers) :
             /\ workers[k].pc \in {"none", "convert"} =>
                   /\ ResultsSent(k) = 0
                   /\ Len(resultChans[k].buf) < resultChans[k].cap
                   /\ ~resultChans[k].closed /\ ~progressChans[k].closed
             /\ workers[k].pc \in {"closeProgress", "closeResult", "exit"} =>
                   /\ ResultsSent(k) = 1
                   /\ workers[k].result.status \in {"ok", "error"}
             /\ progressChans[k].closed <=> workers[k].pc \in {"closeResult", "exit"}
             /\ resultChans[k].closed <=> workers[k].pc = "exit")
    /\ []((pc \notin {"idle", "done"}) =>
             /\ progressChan \in 1..Len(workers)
             /\ workers[progressChan].pc = "convert"
             /\ ~progressChans[progressChan].closed)
    /\ [][\A k \in 1..Len(workers) :
             /\ (Len(progressChans'[k].buf) > Len(progressChans[k].buf)
                   \/ (k = progressChan /\ Len(emitted') > Len(emitted)))
                   => ~progressChans[k].closed /\ ~progressChans'[k].closed
             /\ Len(resultChans'[k].buf) > Len(resultChans[k].buf)
                   => ~resultChans[k].closed /\ ~resultChans'[k].closed
             /\ workers'[k].pc # workers[k].pc =>
                   /\ workers[k].pc = "closeProgress" => ~progressChans[k].closed
                   /\ workers[k].pc = "closeResult" => ~resultChans[k].closed]_vars
    /\ \A k \in 1..MaxSelectedFiles :
          (Started(k) /\ workers[k].pc = "convert") ~> (Started(k) /\ workers[k].pc = "exit")

(* the worker has exited with its result in the channel and both channels   *)
(* closed, while nothing was ever received and Update never ran             *)
C25_Witness ==
    /\ Len(workers) = 1 /\ workers[1].pc = "exit"
    /\ resultChans[1].buf = <<workers[1].result>> /\ resultChans[1].closed
    /\ progressChans[1].closed /\ Len(progressChans[1].buf) = 1
    /\ received = <<>> /\ dropped > 0
    /\ cmds[1].onProgress = 1 /\ msgs.wait = 1


-----------------------------------------------------------------------------
(* Claims about the sequencing of a batch (SpecUI)                          *)

(* the goroutine of conversion k was started and has not returned *)
Running(k) == workers[k].pc \in {"convert", "closeProgress", "closeResult"}

(* conversion k has not handed over yet: its command or goroutine is still  *)
(* to convert, to send the result or to close the progress channel          *)
Converting(k) == workers[k].pc \in {"none", "convert", "closeProgress"}

(* a conversion is started (convertNextFile, then the goroutine) only after *)
(* Update has handled the conversionCompleteMsg of every earlier one        *)
StartsAfterHandled ==
    /\ Len(workers') > Len(workers) => \A j \in 1..Len(workers) : handled'[j] = 1
    /\ \A k \in 1..Len(workers) :
          (workers[k].pc = "none" /\ workers'[k].pc = "convert")
              => \A j \in 1..(k - 1) : handled[j] = 1

(* every conversion has channels of its own: convertNextFile makes a new    *)
(* pair, empty and open, that the model then watches; a progress value goes  *)
(* into channel k only from the conversion of worker k while it runs, a      *)
(* result only from worker k, and it is the result of that conversion        *)
OwnChannels ==
    /\ Len(workers') > Len(workers) =>
          /\ Len(progressChans') = Len(progressChans) + 1
          /\ Len(resultChans') = Len(resultChans) + 1
          /\ progressChans'[Len(progressChans')] = MakeChan(ProgressCap)
          /\ resultChans'[Len(resultChans')] = MakeResultChan
          /\ m'.progressChan = Len(progressChans') /\ m'.resultChan = Len(resultChans')
          /\ SubSeq(progressChans', 1, Len(progressChans)) = progressChans
          /\ SubSeq(resultChans', 1, Len(resultChans)) = resultChans
    /\ \A k \in 1..Len(workers) :
          /\ Len(progressChans'[k].buf) > Len(progressChans[k].buf) =>
                /\ progressChan = k /\ workers[k].pc = "convert"
                /\ pc \notin {"idle", "done"}
                /\ progressChans'[k].buf = Append(progressChans[k].buf, emitted'[Len(emitted')])
          /\ Len(resultChans'[k].buf) > Len(resultChans[k].buf) =>
                /\ progressChan = k /\ workers[k].pc = "convert" /\ pc = "done"
                /\ resultChans'[k].buf = <<result>>

(* C23 as stated: at every moment at most one conversion worker is running; *)
(* the worker of file k+1 is started only after the conversionCompleteMsg   *)
(* of file k was handled; every conversion has its own fresh channels.      *)
C23_AsStated ==
    /\ [](Cardinality({k \in 1..Len(workers) : Running(k)}) <= 1)
    /\ [][StartsAfterHandled /\ OwnChannels]_vars

(* C23 amended: at every moment at most one conversion has not handed over  *)
(* (is converting, sending its result or closing its progress channel) and   *)
(* it is the last one started; the earlier workers have sent their result    *)
(* and closed their progress channel, and have at most close(resultChan)     *)
(* left to do; the worker of file k+1 is started only after the              *)
(* conversionCompleteMsg of file k was handled; every conversion has its     *)
(* own fresh channels.                                                       *)
C23_SequentialBatch ==
    /\ [](/\ Cardinality({k \in 1..Len(workers) : Converting(k)}) <= 1
          /\ \A k \in 1..(Len(workers) - 1) :
                /\ workers[k].pc \in {"closeResult", "exit"}
                /\ progressChans[k].closed
                /\ handled[k] = 1)
    /\ [][StartsAfterHandled /\ OwnChannels]_vars

(* the second conversion is running and sending on its own channel while    *)
(* the first worker has not closed its result channel yet                   *)
C23_Witness ==
    /\ Len(workers) = 2
    /\ workers[1].pc = "closeResult" /\ ~resultChans[1].closed
    /\ workers[2].pc = "convert" /\ pc = "loop" /\ progressChan = 2
    /\ progressChans[2].buf # <<>>
    /\ handled = <<1, 0>>


-----------------------------------------------------------------------------
(* Claims about the progress shown (SpecUI)                                 *)

(* Update applies a progressMsg to the progress bar in this step *)
AppliesProgress ==
    /\ Len(msgs'.progress) < Len(msgs.progress)
    /\ m.state = "stateProcessing"

(* C26: the progress shown belongs to the current file and is in order:     *)
(* every progressMsg Update applies to the progress bar while file k is     *)
(* being converted was emitted by the conversion of file k, and within one  *)
(* file the values are applied in emission order, so that the fraction      *)
(* shown never decreases, under every interleaving of the waitForProgress   *)
(* receivers.                                                               *)
C26_ProgressOfCurrentFile ==
    [][AppliesProgress =>
          /\ m'.percent.from = m.progressChan
          /\ m.percent.from = m'.percent.from => ~Below(m'.percent.p, m.percent.p)]_vars


-----------------------------------------------------------------------------
(* Claims about the choice of the columns (SpecSelect)                      *)

(* the configuration of the file whose columns are being chosen *)
CurrentConfig == m.configs[m.currentFileIndex + 1]

(* Update leaves stateColumnSelection for the next file or for the batch *)
EnterMovesOn ==
    /\ m.state = "stateColumnSelection"
    /\ m'.state \in {"stateLoading", "stateProcessing"}

(* C27: a conversion is only started with a non-empty selection: whatever   *)
(* keys were handled in stateColumnSelection, when Enter moves the UI on to  *)
(* the next file or into stateProcessing, selectedCols of the current file   *)
(* maps at least one index to true.                                          *)
C27_NonEmptySelection ==
    [][EnterMovesOn =>
          \E idx \in DOMAIN CurrentConfig.selectedCols : CurrentConfig.selectedCols[idx]]_vars

(* C28: cursor validity: in every state with state = stateColumnSelection,  *)
(* for every loaded file, a file whose header labels are all blank           *)
(* included, 0 <= cursor < len(selectableIndices) holds for the current      *)
(* file's config, so that the space key never indexes selectableIndices out  *)
(* of range.                                                                 *)
C28_CursorValid ==
    /\ m.state = "stateColumnSelection" =>
          /\ 0 <= CurrentConfig.cursor
          /\ CurrentConfig.cursor < Len(CurrentConfig.selectableIndices)
    /\ msgs.exit # "panic"


-----------------------------------------------------------------------------
(* Claims about the keys during a conversion (SpecKeys)                     *)

(* Update is handed a key in stateProcessing *)
KeyInProcessing == m.state = "stateProcessing" /\ Len(msgs'.keys) < Len(msgs.keys)

(* the state, the selection, the configs, the results or the file index of   *)
(* a model in stateProcessing change                                         *)
BatchMoves ==
    /\ m.state = "stateProcessing"
    /\ <<m'.state, m'.selectedFiles, m'.configs, m'.results, m'.currentFileIndex>>
          # <<m.state, m.selectedFiles, m.configs, m.results, m.currentFileIndex>>

(* C22: no mid-conversion cancellation: once the UI is in stateProcessing,   *)
(* no key, q and ctrl+c included, changes the model's state, selection,      *)
(* configs or results or anything of the worker and its channels, and the    *)
(* program is not told to quit; the worker runs to its end; and the UI       *)
(* leaves stateProcessing only in handling a conversionCompleteMsg, for      *)
(* stateComplete, for the next file or for stateError.                       *)
C22_NoCancellation ==
    /\ [][KeyInProcessing =>
             /\ UNCHANGED <<m, engineVars, resultChans, cmds, workers, handled>>
             /\ msgs' = [msgs EXCEPT !.keys = Tail(@)]]_vars
    /\ [][BatchMoves =>
             /\ Len(msgs'.complete) < Len(msgs.complete)
             /\ m'.selectedFiles = m.selectedFiles /\ m'.configs = m.configs
             /\ \/ m'.state = "stateError" /\ m'.results = m.results
                \/ /\ m'.state = "stateComplete"
                   /\ Len(m'.results) = Len(m.results) + 1
                   /\ m.currentFileIndex = Len(m.selectedFiles) - 1
                \/ /\ m'.state = "stateProcessing"
                   /\ Len(m'.results) = Len(m.results) + 1
                   /\ m'.currentFileIndex = m.currentFileIndex + 1
                   /\ Len(workers') = Len(workers) + 1]_vars
    /\ [](m.state = "stateProcessing" => msgs.exit = "none")
    /\ \A k \in 1..MaxSelectedFiles :
          (Started(k) /\ workers[k].pc = "convert") ~> (Started(k) /\ workers[k].pc = "exit")

(* q was pressed while the second file of the batch is being converted *)
C22_Witness ==
    /\ m.state = "stateProcessing"
    /\ msgs.keys = <<"q">>
    /\ Len(workers) = 2 /\ workers[2].pc = "convert" /\ pc = "loop"
    /\ Len(m.results) = 1

=============================================================================
